---- MODULE Spec2Model ----
(***************************************************************************)
(* Voxel shape samplers, the greedy box-merge compactor (optimizedFill)    *)
(* and the batch dispatcher (batchPlaceBlocks, handleShapeOperation) of    *)
(* the MakeCode Minecraft geometry extension.                              *)
(*                                                                         *)
(* A Position is modelled as the tuple <<x, y, z>> of its world            *)
(* coordinates.  Array indices are 1-based here and 0-based in the source. *)
(* The repository holds two snapshots of the coordinates namespace that    *)
(* differ in BlockExistenceChecker: src/src/coordinates.ts keeps string    *)
(* keys and drops repeated keys, src/unnamed/part_001 keeps encoded        *)
(* numbers and stores every input position.  The variable impl says which  *)
(* of the two a behaviour runs.                                            *)
(***************************************************************************)
EXTENDS Integers, Sequences, FiniteSets, TLC

\* ------------------------------------------------------------------ bounds
\* longest coordinate sequence handed to optimizedFill / batchPlaceBlocks
MaxLen == 3
\* longest coordinate sequence of the repeated-call scenario
MaxDetLen == 2
\* largest radius given to a sampler
MaxRadius == 3
\* largest height given to a sampler
MaxHeight == 4
\* largest size of a shape a shape command is called with
MaxOpSize == 2
\* largest offset between the end points of a line or curve, per axis
MaxLine == 3
\* largest number of control points of a Bezier curve
MaxControls == 2

\* --------------------------------------------------------- program constants
X_MULTIPLIER == 1000000
Y_MULTIPLIER == 1000
Z_MULTIPLIER == 1
BATCH_SIZE == 2048

\* ------------------------------------------------------------- input domains
\* Coordinates the input sequences are drawn from.  Z holds two values that
\* are Y_MULTIPLIER apart, so that the distinct values of an axis need not be
\* consecutive and two different positions can share an encoded number.
CoordX == {0, 1}
CoordY == {0, 1}
CoordZ == {0, Y_MULTIPLIER}
Points == CoordX \X CoordY \X CoordZ
\* every ordering of the four lattice points of the unit square at z = 0
SquareOrders == {C \in [1..4 -> CoordX \X CoordY \X {0}] : \A i, j \in 1..4 : i # j => C[i] # C[j]}
InputSeqs == UNION {[1..n -> Points] : n \in 0..MaxLen} \cup SquareOrders
Impls == {"keys", "numbers"}
FillBlocks == {"Stone"}
\* the blocks a shape command is asked to place
Blocks == {"Stone", "Air"}
\* ShapeOperation
Operations == {"Replace", "Outline", "Hollow"}
\* chunk sizes of the dispatcher: the source's constant, and small ones that
\* split the short sequences of the model into several chunks
BatchSizes == {1, 2, BATCH_SIZE}

\* ------------------------------------------------------------------ helpers
Range(s) == {s[i] : i \in DOMAIN s}
Min(a, b) == IF a < b THEN a ELSE b
Max(a, b) == IF a > b THEN a ELSE b
SetMax(S) == CHOOSE m \in S : \A n \in S : n <= m
SetMin(S) == CHOOSE m \in S : \A n \in S : m <= n

\* Array.indexOf(v) !== -1
Includes(arr, v) == \E i \in DOMAIN arr : arr[i] = v
\* Array.indexOf(v), 1-based, 0 when absent
IndexOf(arr, v) == IF Includes(arr, v) THEN SetMin({i \in DOMAIN arr : arr[i] = v}) ELSE 0
\* Array.splice(index, 1)
Splice(arr, index) == [i \in 1..(Len(arr) - 1) |-> IF i < index THEN arr[i] ELSE arr[i + 1]]
\* Array.slice that starts one element early
Slice_oneEarly(arr, from, to) == SubSeq(arr, Max(1, from), Min(to, Len(arr)))
\* Array.slice(from, to) with 0-based from (inclusive) and to (exclusive)
Slice(arr, from, to) == SubSeq(arr, from + 1, Min(to, Len(arr)))

\* Array.sort((a, b) => a - b) of an array of distinct integers: the values
\* from the least to the greatest that the array holds, in ascending order
sortAscending(coords) ==
    IF coords = <<>> THEN <<>>
    ELSE LET held == Range(coords)
             least == SetMin(held)
         IN SelectSeq([i \in 1..(SetMax(held) - least + 1) |-> least + i - 1],
                      LAMBDA v : v \in held)

\* the cells of the index box [xa..xb] x [ya..yb] x [za..zb] in the order of
\* three nested loops x, y, z
Grid3(xa, xb, ya, yb, za, zb) ==
    LET ny == yb - ya + 1
        nz == zb - za + 1
        n  == (xb - xa + 1) * ny * nz
    IN [i \in 1..(IF n > 0 /\ ny > 0 /\ nz > 0 THEN n ELSE 0) |->
          <<xa + ((i - 1) \div (ny * nz)),
            ya + (((i - 1) \div nz) % ny),
            za + ((i - 1) % nz)>>]

\* a quotient rounded down instead of up
CeilDiv_floor(n, size) == n \div size

\* Math.ceil(n / size) for n >= 0, size >= 1
CeilDiv(n, size) == (n + size - 1) \div size

\* Array.map(f)
MapSeq(arr, F(_)) == [i \in DOMAIN arr |-> F(arr[i])]

\* Math.floor(Math.sqrt(n)) for an integer n >= 0
FloorSqrt(n) == CHOOSE k \in 0..n : k * k <= n /\ (k + 1) * (k + 1) > n

\* ------------------------------------------------------------ shape samplers
\* Centers, corners and sizes are integers, on which Math.round is the
\* identity.  A cell of a sampler's loops is the tuple of its loop counters in
\* nesting order; the cells that pass the sampler's test are mapped to world
\* positions in that order.  Where the source compares floating-point
\* quotients or square roots, the comparison is made on the integers obtained
\* by clearing the denominators and squaring.

\* WORLD_BOUNDS
X_MIN == -30000000
X_MAX == 30000000
Y_MIN == -64
Y_MAX == 320
Z_MIN == -30000000
Z_MAX == 30000000

\* Axis.X, Axis.Y, Axis.Z as the index of the coordinate in a position
AxisX == 1
AxisY == 2
AxisZ == 3

normalizeCoordinate(coord) == Max(X_MIN, Min(X_MAX, coord))

validateCoordinates(x, y, z) ==
    /\ x >= X_MIN /\ x <= X_MAX
    /\ y >= Y_MIN /\ y <= Y_MAX
    /\ z >= Z_MIN /\ z <= Z_MAX

\* shouldPlaceBlock with the hollow branch reduced to its inner bound
shouldPlaceBlock_shellOnly(distanceSquared, radius, hollow) ==
    IF hollow
    THEN distanceSquared >= Max(0, radius - 1) * Max(0, radius - 1)
    ELSE distanceSquared <= radius * radius

\* shouldPlaceBlock(distance, radius, hollow) on distance = sqrt(distanceSquared)
\* and an integer radius >= 0
shouldPlaceBlock(distanceSquared, radius, hollow) ==
    IF hollow
    THEN /\ distanceSquared <= radius * radius
         /\ distanceSquared >= Max(0, radius - 1) * Max(0, radius - 1)
    ELSE distanceSquared <= radius * radius

\* passesDensitySampling for the density 1.0 the shape commands pass
passesDensitySampling(densityFactor) ==
    IF densityFactor <= 0 THEN FALSE ELSE densityFactor >= 1

getCirclePositionsOptimized(center, radius, axis, offset, hollow) ==
    LET radiusSquared == radius * radius
        innerRadius == IF hollow THEN Max(0, radius - 1) ELSE 0
        innerRadiusSquared == innerRadius * innerRadius
        \* cell <<dx, dz, 0>>
        placed(c) ==
            LET dxSquared == c[1] * c[1]
                distanceSquared == dxSquared + c[2] * c[2]
            IN /\ dxSquared <= radiusSquared
               /\ c[2] \in (0 - FloorSqrt(radiusSquared - dxSquared))..
                           FloorSqrt(radiusSquared - dxSquared)
               /\ distanceSquared <= radiusSquared
               /\ (~hollow \/ distanceSquared >= innerRadiusSquared)
        worldPos(c) ==
            IF axis = AxisY THEN <<center[1] + c[1], center[2] + offset, center[3] + c[2]>>
            ELSE IF axis = AxisX THEN <<center[1] + offset, center[2] + c[1], center[3] + c[2]>>
            ELSE <<center[1] + c[1], center[2] + c[2], center[3] + offset>>
    IN SelectSeq(MapSeq(SelectSeq(Grid3(0 - radius, radius, 0 - radius, radius, 0, 0), placed),
                        worldPos),
                 LAMBDA p : validateCoordinates(p[1], p[2], p[3]))

\* the layer loop of getCylinderPositions from layer i on
RECURSIVE cylinderLayers(_, _, _, _, _)
cylinderLayers(center, radiusInt, hollow, i, layersInt) ==
    IF i >= layersInt THEN <<>>
    ELSE getCirclePositionsOptimized(<<center[1], center[2] + i, center[3]>>,
                                     radiusInt, AxisY, 0, hollow)
         \o cylinderLayers(center, radiusInt, hollow, i + 1, layersInt)

getCylinderPositions(center, radius, height, hollow, layers) ==
    LET radiusInt == Max(1, radius)
        heightInt == Max(1, height)
        layersInt == IF layers > 0 THEN Min(layers, heightInt) ELSE heightInt
    IN cylinderLayers(center, radiusInt, hollow, 0, layersInt)

\* currentRadius is the fraction n / height with n = radius * (height - y)
getConePositions(center, radius, height, hollow) ==
    LET \* cell <<y, x, z>>
        placed(c) ==
            LET n == radius * (height - c[1])
                radiusIntCeil == CeilDiv(n, height)
                xSquared == c[2] * c[2]
                distanceSquared == xSquared + c[3] * c[3]
            IN /\ c[2] \in (0 - radiusIntCeil)..radiusIntCeil
               /\ c[3] \in (0 - radiusIntCeil)..radiusIntCeil
               /\ xSquared * height * height <= n * n
               /\ distanceSquared * height * height <= n * n
               /\ \/ ~hollow
                  \/ n - height <= 0
                  \/ distanceSquared * height * height >= (n - height) * (n - height)
    IN MapSeq(SelectSeq(Grid3(0, height - 1, 0 - radius, radius, 0 - radius, radius), placed),
              LAMBDA c : <<center[1] + c[2], center[2] + c[1], center[3] + c[3]>>)

\* t*t + y*y <= r*r for t = |sqrt(d) - major|, d = x*x + z*z, major >= 1:
\* d + major^2 + y^2 - r^2 <= 2 * major * sqrt(d)
tubeWithin(d, major, y, r) ==
    LET s == d + major * major + y * y - r * r
    IN s <= 0 \/ s * s <= 4 * major * major * d

\* t*t + y*y >= r*r for the same t
tubeBeyond(d, major, y, r) ==
    LET s == d + major * major + y * y - r * r
    IN s >= 0 /\ s * s >= 4 * major * major * d

getTorusPositions(center, majorRadius, minorRadius, hollow) ==
    LET totalRadius == majorRadius + minorRadius
        innerMinorRadius == IF hollow THEN Max(0, minorRadius - 1) ELSE 0
        \* cell <<x, z, y>>
        placed(c) ==
            LET distanceFromCenterSquared == c[1] * c[1] + c[2] * c[2]
            IN \* distanceFromTubeCenter <= minorRadiusInt
               /\ tubeWithin(distanceFromCenterSquared, majorRadius, 0, minorRadius)
               \* y in -maxY..maxY and tubeDistanceSquared <= minorRadiusSquared
               /\ tubeWithin(distanceFromCenterSquared, majorRadius, c[3], minorRadius)
               /\ \/ ~hollow
                  \/ tubeBeyond(distanceFromCenterSquared, majorRadius, c[3], innerMinorRadius)
    IN MapSeq(SelectSeq(Grid3(0 - totalRadius, totalRadius, 0 - totalRadius, totalRadius,
                              0 - minorRadius, minorRadius), placed),
              LAMBDA c : <<center[1] + c[1], center[2] + c[3], center[3] + c[2]>>)

\* normalizedDistance^2 is the fraction n / p below; 0.8^2 = 16 / 25
getEllipsoidPositions(center, radiusX, radiusY, radiusZ, hollow) ==
    LET centerX == normalizeCoordinate(center[1])
        centerY == normalizeCoordinate(center[2])
        centerZ == normalizeCoordinate(center[3])
        radiusXInt == Max(1, radiusX)
        radiusYInt == Max(1, radiusY)
        radiusZInt == Max(1, radiusZ)
        maxRadius == Max(Max(radiusXInt, radiusYInt), radiusZInt)
        p == radiusXInt * radiusXInt * radiusYInt * radiusYInt * radiusZInt * radiusZInt
        \* cell <<x, y, z>> in world coordinates
        placed(c) ==
            LET dx == c[1] - centerX
                dy == c[2] - centerY
                dz == c[3] - centerZ
                n == dx * dx * radiusYInt * radiusYInt * radiusZInt * radiusZInt
                     + dy * dy * radiusXInt * radiusXInt * radiusZInt * radiusZInt
                     + dz * dz * radiusXInt * radiusXInt * radiusYInt * radiusYInt
                shouldPlace == IF hollow THEN n <= p /\ 25 * n >= 16 * p ELSE n <= p
            IN shouldPlace /\ validateCoordinates(c[1], c[2], c[3])
    IN SelectSeq(Grid3(centerX - maxRadius, centerX + maxRadius,
                       centerY - maxRadius, centerY + maxRadius,
                       centerZ - maxRadius, centerZ + maxRadius), placed)

\* currentRadiusSquared = 4 * focalLength * y is the fraction radius^2 * y / height
getParaboloidPositions(center, radius, height, hollow) ==
    LET radiusSquared == radius * radius
        \* cell <<y, x, z>>
        placed(c) ==
            LET currentRadiusInt == FloorSqrt((radiusSquared * c[1]) \div height)
                innerRadius == IF hollow THEN Max(0, currentRadiusInt - 1) ELSE 0
                xSquared == c[2] * c[2]
                distanceSquared == xSquared + c[3] * c[3]
            IN /\ ~(currentRadiusInt > radius)
               /\ c[2] \in (0 - currentRadiusInt)..currentRadiusInt
               /\ xSquared * height <= radiusSquared * c[1]
               \* z in -maxZ..maxZ and distanceSquared <= currentRadiusSquared
               /\ distanceSquared * height <= radiusSquared * c[1]
               /\ (~hollow \/ distanceSquared >= innerRadius * innerRadius)
    IN MapSeq(SelectSeq(Grid3(0, height - 1, 0 - radius, radius, 0 - radius, radius), placed),
              LAMBDA c : <<center[1] + c[2], center[2] + c[1], center[3] + c[3]>>)

\* Math.round(a * sqrt(1 + (t*b/a)^2)) for t = (y - halfHeight) / halfHeight,
\* a >= 1, halfHeight >= 1: the k with (2k-1)^2 <= 4 * currentRadius^2 < (2k+1)^2
hyperboloidRadius(a, b, halfHeight, y) ==
    LET s == 4 * (a * a * halfHeight * halfHeight + (y - halfHeight) * (y - halfHeight) * b * b)
    IN CHOOSE k \in 0..(a + Max(b, 0 - b) + 1) :
          /\ (2 * k - 1) * (2 * k - 1) * halfHeight * halfHeight <= s
          /\ (2 * k + 1) * (2 * k + 1) * halfHeight * halfHeight > s

\* with waistRadius 0 or halfHeight 0 the radius of every layer is NaN and no
\* loop over x runs
getHyperboloidPositions(center, baseRadius, waistRadius, height, hollow) ==
    LET halfHeight == height \div 2
        a == waistRadius
        b == baseRadius - waistRadius
        reach == a + Max(b, 0 - b)
        \* cell <<y, x, z>>
        placed(c) ==
            LET currentRadiusInt == hyperboloidRadius(a, b, halfHeight, c[1])
                currentRadiusSquared == currentRadiusInt * currentRadiusInt
                innerRadius == IF hollow THEN Max(0, currentRadiusInt - 1) ELSE 0
                xSquared == c[2] * c[2]
                distanceSquared == xSquared + c[3] * c[3]
            IN /\ c[2] \in (0 - currentRadiusInt)..currentRadiusInt
               /\ xSquared <= currentRadiusSquared
               /\ c[3] \in (0 - FloorSqrt(currentRadiusSquared - xSquared))..
                           FloorSqrt(currentRadiusSquared - xSquared)
               /\ distanceSquared <= currentRadiusSquared
               /\ (~hollow \/ distanceSquared >= innerRadius * innerRadius)
    IN IF a = 0 \/ halfHeight = 0 THEN <<>>
       ELSE MapSeq(SelectSeq(Grid3(0, height - 1, 0 - reach, reach, 0 - reach, reach), placed),
                   LAMBDA c : <<center[1] + c[2], center[2] + c[1], center[3] + c[3]>>)

\* the eight symmetric points one iteration of the midpoint loop pushes
circleOctants(x, y) ==
    <<<<x, y>>, <<y, x>>, <<0 - y, x>>, <<0 - x, y>>,
      <<0 - x, 0 - y>>, <<0 - y, 0 - x>>, <<y, 0 - x>>, <<x, 0 - y>>>>

\* the while loop of the hollow branch of getCirclePositions: the <<u, v>>
\* pairs pushed from the loop state x, y, err on
RECURSIVE midpointCircle(_, _, _)
midpointCircle(x, y, err) ==
    IF ~(x >= y) THEN <<>>
    ELSE LET y1i == IF err <= 0 THEN y + 1 ELSE y
             err1 == IF err <= 0 THEN err + 2 * y1i + 1 ELSE err
             x2i == IF err1 > 0 THEN x - 1 ELSE x
             err2 == IF err1 > 0 THEN err1 - (2 * x2i + 1) ELSE err1
         IN circleOctants(x, y) \o midpointCircle(x2i, y1i, err2)

\* the filled branch of getCirclePositions: the <<u, v>> pairs in loop order
filledCircle(radiusInt) ==
    LET \* cell <<x, y, 0>>
        placed(c) ==
            LET maxYSquared == radiusInt * radiusInt - c[1] * c[1]
            IN /\ maxYSquared >= 0
               /\ c[2] \in (0 - FloorSqrt(maxYSquared))..FloorSqrt(maxYSquared)
    IN MapSeq(SelectSeq(Grid3(0 - radiusInt, radiusInt, 0 - radiusInt, radiusInt, 0, 0), placed),
              LAMBDA c : <<c[1], c[2]>>)

getCirclePositions(center, radius, orientation, hollow) ==
    LET toWorld(uv) ==
            IF orientation = AxisX THEN <<center[1], center[2] + uv[1], center[3] + uv[2]>>
            ELSE IF orientation = AxisY THEN <<center[1] + uv[1], center[2], center[3] + uv[2]>>
            ELSE <<center[1] + uv[1], center[2] + uv[2], center[3]>>
    IN MapSeq(IF hollow THEN midpointCircle(radius, 0, 0) ELSE filledCircle(radius), toWorld)

\* getSpherePositions whose three loops stop one short of center + radius
getSpherePositions_halfOpen(center, radius, hollow, density) ==
    IF radius <= 0 THEN <<>>
    ELSE LET radiusInt == Max(1, Max(radius, 0 - radius))
             placed(c) ==
                 shouldPlaceBlock((c[1] - center[1]) * (c[1] - center[1])
                                  + (c[2] - center[2]) * (c[2] - center[2])
                                  + (c[3] - center[3]) * (c[3] - center[3]), radiusInt, hollow)
         IN SelectSeq(Grid3(center[1] - radiusInt, center[1] + radiusInt - 1,
                            center[2] - radiusInt, center[2] + radiusInt - 1,
                            center[3] - radiusInt, center[3] + radiusInt - 1), placed)

\* getSpherePositions on a center that is given and an integer density other
\* than 0 (the shape commands pass 1.0); distance is compared through its square
getSpherePositions(center, radius, hollow, density) ==
    IF radius <= 0 THEN <<>>
    ELSE LET centerX == normalizeCoordinate(center[1])
             centerY == normalizeCoordinate(center[2])
             centerZ == normalizeCoordinate(center[3])
             radiusInt == Max(1, Max(radius, 0 - radius))
             densityFactor == Min(1, Max(density, 0 - density))
             \* cell <<x, y, z>> in world coordinates
             placed(c) ==
                 /\ shouldPlaceBlock((c[1] - centerX) * (c[1] - centerX)
                                     + (c[2] - centerY) * (c[2] - centerY)
                                     + (c[3] - centerZ) * (c[3] - centerZ), radiusInt, hollow)
                 /\ passesDensitySampling(densityFactor)
         IN SelectSeq(Grid3(centerX - radiusInt, centerX + radiusInt,
                            centerY - radiusInt, centerY + radiusInt,
                            centerZ - radiusInt, centerZ + radiusInt), placed)

\* the inlined sampler keeping a hollow cell only when it lies strictly
\* outside the inner radius
shapesExt_getSpherePositions_strictInner(center, radius, hollow) ==
    LET radiusSquared == radius * radius
        radiuso == IF hollow THEN Max(0, (radius - 1) * (radius - 1)) ELSE 0
        placed(c) ==
            /\ c[1] * c[1] + c[2] * c[2] + c[3] * c[3] <= radiusSquared
            /\ (~hollow \/ c[1] * c[1] + c[2] * c[2] + c[3] * c[3] > radiuso)
        cells == SelectSeq(Grid3(0 - radius, radius, 0 - radius, radius,
                                 0 - radius, radius), placed)
    IN [i \in DOMAIN cells |->
           <<center[1] + cells[i][1], center[2] + cells[i][2], center[3] + cells[i][3]>>]

\* getSpherePositions of the coordinates namespace inlined in shapesExt.ts: x
\* runs over -r..r, y over the range bounded by floor(sqrt(r^2 - x^2)), z over
\* the range bounded by floor(sqrt(r^2 - x^2 - y^2)); no parameter validation
shapesExt_getSpherePositions(center, radius, hollow) ==
    LET radiusInt == radius
        radiusSquared == radiusInt * radiusInt
        radiuso == IF hollow THEN Max(0, (radiusInt - 1) * (radiusInt - 1)) ELSE 0
        \* cell <<x, y, z>> as offsets from the center
        abs(v) == Max(v, 0 - v)
        reached(c) ==
            /\ c[1] * c[1] <= radiusSquared
            /\ abs(c[2]) <= FloorSqrt(radiusSquared - c[1] * c[1])
            /\ abs(c[3]) <= FloorSqrt(radiusSquared - c[1] * c[1] - c[2] * c[2])
        placed(c) ==
            /\ reached(c)
            /\ c[1] * c[1] + c[2] * c[2] + c[3] * c[3] <= radiusSquared
            /\ (~hollow \/ c[1] * c[1] + c[2] * c[2] + c[3] * c[3] >= radiuso)
        cells == SelectSeq(Grid3(0 - radiusInt, radiusInt, 0 - radiusInt, radiusInt,
                                 0 - radiusInt, radiusInt), placed)
    IN [i \in DOMAIN cells |->
           <<center[1] + cells[i][1], center[2] + cells[i][2], center[3] + cells[i][3]>>]

\* ---- getSpherePositions with a density below 1.0
\* A density is given in tenths (densityTenths / 10).  Math.random() returns
\* any number in [0, 1), so for a densityFactor below 1.0 the comparison
\* Math.random() < densityFactor can come out either way: draws[i] is its
\* outcome for the i-th cell that passed shouldPlaceBlock (the && of the source
\* calls passesDensitySampling for those cells only).

\* Math.max(0.1, Math.min(1.0, Math.abs(density))), in tenths
densityFactorTenths(densityTenths) ==
    Max(1, Min(10, Max(densityTenths, 0 - densityTenths)))

\* passesDensitySampling(densityFactor) when Math.random() < densityFactor
\* comes out as below
passesDensitySamplingDrawn(factorTenths, below) ==
    IF factorTenths <= 0 THEN FALSE ELSE factorTenths >= 10 \/ below

\* the elements of arr at the indices kept, in order
SubSeqAt(arr, kept) ==
    [j \in 1..Cardinality(kept) |->
        arr[CHOOSE i \in kept : Cardinality({k \in kept : k <= i}) = j]]

getSpherePositionsDrawn(center, radius, hollow, densityTenths, draws) ==
    LET candidates == getSpherePositions(center, radius, hollow, 1)
        kept == {i \in DOMAIN candidates :
                    passesDensitySamplingDrawn(densityFactorTenths(densityTenths), draws[i])}
    IN SubSeqAt(candidates, kept)

\* getCuboidPositions whose loops run from corner1 to corner2 as given
getCuboidPositions_asGiven(corner1, corner2, hollow) ==
    LET isOnFace(c) == \/ c[1] = corner1[1] \/ c[1] = corner2[1]
                       \/ c[2] = corner1[2] \/ c[2] = corner2[2]
                       \/ c[3] = corner1[3] \/ c[3] = corner2[3]
        cells == Grid3(corner1[1], corner2[1], corner1[2], corner2[2], corner1[3], corner2[3])
    IN IF hollow THEN SelectSeq(cells, isOnFace) ELSE cells

getCuboidPositions(corner1, corner2, hollow) ==
    LET minX == Min(corner1[1], corner2[1])
        maxX == Max(corner1[1], corner2[1])
        minY == Min(corner1[2], corner2[2])
        maxY == Max(corner1[2], corner2[2])
        minZ == Min(corner1[3], corner2[3])
        maxZ == Max(corner1[3], corner2[3])
        isOnFace(c) == \/ c[1] = minX \/ c[1] = maxX
                       \/ c[2] = minY \/ c[2] = maxY
                       \/ c[3] = minZ \/ c[3] = maxZ
    IN IF hollow THEN SelectSeq(Grid3(minX, maxX, minY, maxY, minZ, maxZ), isOnFace)
       ELSE Grid3(minX, maxX, minY, maxY, minZ, maxZ)

\* the loop of getLinePositions from iteration i on: the position is pushed,
\* then each axis takes its step when its error term falls below 0
RECURSIVE bresenham(_, _, _, _, _, _, _, _, _)
bresenham(x0, y0, z0, x1_err, y1_err, z1_err, d, sgn, i) ==
    LET dm == Max(Max(d[1], d[2]), d[3])
        stepX == x1_err - d[1] < 0
        stepY == y1_err - d[2] < 0
        stepZ == z1_err - d[3] < 0
    IN IF i > dm THEN <<>>
       ELSE <<<<x0, y0, z0>>>> \o
            bresenham(IF stepX THEN x0 + sgn[1] ELSE x0,
                      IF stepY THEN y0 + sgn[2] ELSE y0,
                      IF stepZ THEN z0 + sgn[3] ELSE z0,
                      IF stepX THEN x1_err - d[1] + dm ELSE x1_err - d[1],
                      IF stepY THEN y1_err - d[2] + dm ELSE y1_err - d[2],
                      IF stepZ THEN z1_err - d[3] + dm ELSE z1_err - d[3],
                      d, sgn, i + 1)

\* the number of axes on which the two points agree
EqualAxes(p0, p1) == Cardinality({a \in 1..3 : p0[a] = p1[a]})

\* getLinePositions whose digital line starts at its second point
getLinePositions_fromSecond(p0, p1) ==
    LET abs(v) == Max(v, 0 - v)
        d == <<abs(p1[1] - p0[1]), abs(p1[2] - p0[2]), abs(p1[3] - p0[3])>>
        sgn == <<IF p0[1] < p1[1] THEN 1 ELSE -1, IF p0[2] < p1[2] THEN 1 ELSE -1,
                 IF p0[3] < p1[3] THEN 1 ELSE -1>>
        dm == Max(Max(d[1], d[2]), d[3])
    IN IF EqualAxes(p0, p1) >= 2
       THEN Grid3(Min(p0[1], p1[1]), Max(p0[1], p1[1]), Min(p0[2], p1[2]), Max(p0[2], p1[2]),
                  Min(p0[3], p1[3]), Max(p0[3], p1[3]))
       ELSE Tail(bresenham(p0[1], p0[2], p0[3], dm \div 2, dm \div 2, dm \div 2, d, sgn, 0))

\* getLinePositions whose degenerate branch loops from p0 to p1 as given
getLinePositions_asGiven(p0, p1) ==
    LET abs(v) == Max(v, 0 - v)
        d == <<abs(p1[1] - p0[1]), abs(p1[2] - p0[2]), abs(p1[3] - p0[3])>>
        sgn == <<IF p0[1] < p1[1] THEN 1 ELSE -1, IF p0[2] < p1[2] THEN 1 ELSE -1,
                 IF p0[3] < p1[3] THEN 1 ELSE -1>>
        dm == Max(Max(d[1], d[2]), d[3])
    IN IF EqualAxes(p0, p1) >= 2
       THEN Grid3(p0[1], p1[1], p0[2], p1[2], p0[3], p1[3])
       ELSE bresenham(p0[1], p0[2], p0[3], dm \div 2, dm \div 2, dm \div 2, d, sgn, 0)

\* getLinePositions whose digital line holds the two end points only
getLinePositions_endPoints(p0, p1) ==
    IF EqualAxes(p0, p1) >= 2
    THEN Grid3(Min(p0[1], p1[1]), Max(p0[1], p1[1]), Min(p0[2], p1[2]), Max(p0[2], p1[2]),
               Min(p0[3], p1[3]), Max(p0[3], p1[3]))
    ELSE <<p0, p1>>

\* getLinePositions: the box of the two points when they agree on two axes
\* or more, else the digital line; the loop counter i runs from 0 to dm
getLinePositions(p0, p1) ==
    LET abs(v) == Max(v, 0 - v)
        d == <<abs(p1[1] - p0[1]), abs(p1[2] - p0[2]), abs(p1[3] - p0[3])>>
        sgn == <<IF p0[1] < p1[1] THEN 1 ELSE -1, IF p0[2] < p1[2] THEN 1 ELSE -1,
                 IF p0[3] < p1[3] THEN 1 ELSE -1>>
        dm == Max(Max(d[1], d[2]), d[3])
    IN IF EqualAxes(p0, p1) >= 2
       THEN Grid3(Min(p0[1], p1[1]), Max(p0[1], p1[1]), Min(p0[2], p1[2]), Max(p0[2], p1[2]),
                  Min(p0[3], p1[3]), Max(p0[3], p1[3]))
       ELSE bresenham(p0[1], p0[2], p0[3], dm \div 2, dm \div 2, dm \div 2, d, sgn, 0)

\* ---- getVariableBezierCurvePositions
\* The parameter t of the source is a floating-point number that grows by
\* stepSize = 0.01 and is cut to 1.0; here it is the exact fraction
\* k / StepsPerUnit, and the Bernstein sum is the exact fraction
\* numerator / StepsPerUnit^n, rounded as Math.round rounds (half up).  At
\* t = 0 and t = 1.0 the source computes these values exactly, since
\* Math.pow(0, 0) = 1 and every other term is 0, and its hundredth addition
\* of stepSize passes 1.0, so that the loop ends with t = 1.0 after
\* StepsPerUnit steps.  Between the end points a floating-point sum that
\* falls next to a half may round to the neighbouring integer.
StepsPerUnit == 100

RECURSIVE Pow(_, _)
Pow(base, e) == IF e = 0 THEN 1 ELSE base * Pow(base, e - 1)

\* the loop of binomialCoeff from iteration i on
RECURSIVE binomialLoop(_, _, _, _)
binomialLoop(n, k, i, result) ==
    IF i >= k THEN result ELSE binomialLoop(n, k, i + 1, (result * (n - i)) \div (i + 1))

binomialCoeff(n, k) ==
    IF k > n THEN 0
    ELSE IF k = 0 \/ k = n THEN 1
    ELSE binomialLoop(n, k, 0, 1)

\* Math.round(numerator / denominator) for denominator > 0
RoundDiv(numerator, denominator) == (2 * numerator + denominator) \div (2 * denominator)

\* bezierCalculation(t) at t = k / StepsPerUnit
bezierCalculation(allControlPoints, k) ==
    LET n == Len(allControlPoints) - 1
        coeff(i) == binomialCoeff(n, i) * Pow(StepsPerUnit - k, n - i) * Pow(k, i)
        RECURSIVE sum(_, _)
        sum(axis, i) == IF i > n THEN 0
                        ELSE coeff(i) * allControlPoints[i + 1][axis] + sum(axis, i + 1)
    IN <<RoundDiv(sum(1, 0), Pow(StepsPerUnit, n)), RoundDiv(sum(2, 0), Pow(StepsPerUnit, n)),
         RoundDiv(sum(3, 0), Pow(StepsPerUnit, n))>>

\* the while loop of getVariableBezierCurvePositions over the steps lo..hi,
\* from the loop state st (previousPos, positionsArr) on; the range is folded
\* by halves, first half first
RECURSIVE bezierLoop(_, _, _, _)
bezierLoop(allControlPoints, st, lo, hi) ==
    IF lo > hi THEN st
    ELSE IF lo = hi
         THEN CHOOSE r \in
                 {IF st.previousPos # nextPos
                  THEN [previousPos |-> nextPos, positionsArr |-> Append(st.positionsArr, nextPos)]
                  ELSE st : nextPos \in {bezierCalculation(allControlPoints, lo)}} : TRUE
         ELSE CHOOSE r \in
                 {bezierLoop(allControlPoints, h, ((lo + hi) \div 2) + 1, hi) :
                     h \in {bezierLoop(allControlPoints, st, lo, (lo + hi) \div 2)}} : TRUE

\* getVariableBezierCurvePositions that does not push the position at t = 0
getVariableBezierCurvePositions_noFirstPush(startPoint, controlPoints, endPoint) ==
    LET allControlPoints == <<startPoint>> \o controlPoints \o <<endPoint>>
        first == bezierCalculation(allControlPoints, 0)
    IN bezierLoop(allControlPoints, [previousPos |-> first, positionsArr |-> <<>>],
                  1, StepsPerUnit).positionsArr

getVariableBezierCurvePositions(startPoint, controlPoints, endPoint) ==
    LET allControlPoints == <<startPoint>> \o controlPoints \o <<endPoint>>
        first == bezierCalculation(allControlPoints, 0)
    IN bezierLoop(allControlPoints, [previousPos |-> first, positionsArr |-> <<first>>],
                  1, StepsPerUnit).positionsArr

\* a shape request: the sampler (kind), its center (corner1 of a cuboid) and
\* its remaining numeric arguments p (corner2 of a cuboid)
circleShape(center, radius, orientation) ==
    [kind |-> "circle", center |-> center, p |-> <<radius, orientation>>]
sphereShape(center, radius) == [kind |-> "sphere", center |-> center, p |-> <<radius>>]
sphereExtShape(center, radius) == [kind |-> "sphereExt", center |-> center, p |-> <<radius>>]
cuboidShape(corner1, corner2) == [kind |-> "cuboid", center |-> corner1, p |-> corner2]
cylinderShape(center, radius, height) ==
    [kind |-> "cylinder", center |-> center, p |-> <<radius, height>>]
coneShape(center, radius, height) ==
    [kind |-> "cone", center |-> center, p |-> <<radius, height>>]
torusShape(center, majorRadius, minorRadius) ==
    [kind |-> "torus", center |-> center, p |-> <<majorRadius, minorRadius>>]
ellipsoidShape(center, radiusX, radiusY, radiusZ) ==
    [kind |-> "ellipsoid", center |-> center, p |-> <<radiusX, radiusY, radiusZ>>]
paraboloidShape(center, radius, height) ==
    [kind |-> "paraboloid", center |-> center, p |-> <<radius, height>>]
hyperboloidShape(center, baseRadius, waistRadius, height) ==
    [kind |-> "hyperboloid", center |-> center, p |-> <<baseRadius, waistRadius, height>>]

\* the getPositions closure a shape command hands to handleShapeOperation
getPositions(shape, hollow) ==
    CASE shape.kind = "circle" ->
            getCirclePositions(shape.center, shape.p[1], shape.p[2], hollow)
      [] shape.kind = "sphere" -> getSpherePositions(shape.center, shape.p[1], hollow, 1)
      [] shape.kind = "sphereExt" -> shapesExt_getSpherePositions(shape.center, shape.p[1], hollow)
      [] shape.kind = "cuboid" -> getCuboidPositions(shape.center, shape.p, hollow)
      [] shape.kind = "cylinder" ->
            getCylinderPositions(shape.center, shape.p[1], shape.p[2], hollow, 0)
      [] shape.kind = "cone" -> getConePositions(shape.center, shape.p[1], shape.p[2], hollow)
      [] shape.kind = "torus" -> getTorusPositions(shape.center, shape.p[1], shape.p[2], hollow)
      [] shape.kind = "ellipsoid" ->
            getEllipsoidPositions(shape.center, shape.p[1], shape.p[2], shape.p[3], hollow)
      [] shape.kind = "paraboloid" ->
            getParaboloidPositions(shape.center, shape.p[1], shape.p[2], hollow)
      [] shape.kind = "hyperboloid" ->
            getHyperboloidPositions(shape.center, shape.p[1], shape.p[2], shape.p[3], hollow)

\* the player.say calls a sampler makes before its loops: getProgressMessage(0)
\* in the cylinder, ellipsoid and sphere samplers (the sphere after its
\* parameter validation); the counted messages inside the loops start at
\* PROGRESS_INTERVAL_COUNT positions, which no shape of the model reaches
samplerSays(shape) ==
    IF \/ shape.kind \in {"cylinder", "ellipsoid"}
       \/ shape.kind = "sphere" /\ shape.p[1] > 0
    THEN <<[type |-> "say", msg |-> "GENERATING", args |-> <<0>>]>>
    ELSE <<>>

\* the sampler inputs: every sampler at two centers, one of them next to the
\* upper Y bound of the world
Centers == {<<0, 0, 0>>, <<0, Y_MAX - 1, 0>>}
Radii == 0..MaxRadius
Heights == 0..MaxHeight
Shapes ==
    UNION {
        {circleShape(c, r, o) : r \in Radii, o \in {AxisX, AxisY, AxisZ}}
        \cup {sphereShape(c, r) : r \in Radii}
        \cup {sphereExtShape(c, r) : r \in Radii}
        \cup {cuboidShape(c, <<c[1] + dx, c[2] + dy, c[3] + dz>>) :
                dx \in -1..(MaxRadius - 1), dy \in -1..(MaxRadius - 1), dz \in -1..(MaxRadius - 1)}
        \cup {cylinderShape(c, r, h) : r \in Radii, h \in Heights}
        \cup {coneShape(c, r, h) : r \in Radii, h \in Heights}
        \cup {torusShape(c, r, m) : r \in Radii \ {0}, m \in Radii}
        \cup {ellipsoidShape(c, rx, ry, rz) : rx \in Radii, ry \in Radii, rz \in Radii}
        \cup {paraboloidShape(c, r, h) : r \in Radii, h \in Heights}
        \cup {hyperboloidShape(c, r, w, h) : r \in Radii, w \in Radii, h \in Heights}
        : c \in Centers}

\* the shapes the shape commands are called with: every command at the
\* origin, with each of its sizes equal to n
ShapesOfSize(n) ==
    LET c == <<0, 0, 0>>
    IN {circleShape(c, n, AxisY), sphereShape(c, n), cuboidShape(c, <<n, n, n>>),
        cylinderShape(c, n, n), coneShape(c, n, n), torusShape(c, n + 1, n),
        ellipsoidShape(c, n, n, n), paraboloidShape(c, n, n),
        hyperboloidShape(c, n, n, n)}
OpShapes == UNION {ShapesOfSize(n) : n \in 0..MaxOpSize}

\* a curve request: a line from p0 to p1, or a Bezier curve
lineShape(p0, p1) == [kind |-> "line", center |-> p0, p |-> p1]
bezierShape(startPoint, controlPoints, endPoint) ==
    [kind |-> "bezier", center |-> startPoint, p |-> <<controlPoints, endPoint>>]

\* the positions the sampler of a curve returns
getCurvePositions(shape) ==
    IF shape.kind = "line" THEN getLinePositions(shape.center, shape.p)
    ELSE getVariableBezierCurvePositions(shape.center, shape.p[1], shape.p[2])

\* the curve inputs: lines from two start points to every point within
\* MaxLine per axis, and Bezier curves over a few points with up to
\* MaxControls control points
LineStarts == {<<0, 0, 0>>, <<1, -2, 3>>}
LineOffsets == (0 - MaxLine)..MaxLine
BezierPoints == {<<0, 0, 0>>, <<MaxLine, MaxLine, 0>>, <<0 - MaxLine, 1, MaxLine>>, <<1, 0 - MaxLine, 2>>}
Curves ==
    {lineShape(p0, <<p0[1] + dx, p0[2] + dy, p0[3] + dz>>) :
        p0 \in LineStarts, dx \in LineOffsets, dy \in LineOffsets, dz \in LineOffsets}
    \cup {bezierShape(a, c, b) :
             a \in BezierPoints, b \in BezierPoints,
             c \in UNION {[1..n -> BezierPoints] : n \in 0..MaxControls}}

\* a sphere request with a density, in tenths
densitySphereShape(center, radius, densityTenths) ==
    [kind |-> "sphereDensity", center |-> center, p |-> <<radius, densityTenths>>]

\* the densities 0.1, 0.5 and 1.0
DensityTenths == {1, 5, 10}

\* the sampler calls that are made twice: every shape sampler at its sizes
\* 1 and the smallest sphere at each density; two lines and two Bezier curves
RepeatShapes ==
    ShapesOfSize(1)
    \cup {densitySphereShape(<<0, 0, 0>>, SetMin(Radii \ {0}), t) : t \in DensityTenths}
RepeatCurves ==
    {lineShape(<<0, 0, 0>>, <<2, 1, -1>>), lineShape(<<0, 0, 0>>, <<0, 2, 0>>),
     bezierShape(<<0, 0, 0>>, <<>>, <<2, 1, 0>>),
     bezierShape(<<0, 0, 0>>, <<<<2, 2, 0>>>>, <<0, 2, 1>>)}

\* ------------------------------------------------- greedy box-merge compactor
\* The loops over an array of positions are folded over the index range
\* lo..hi by halves, left half first, so that the depth of the evaluation
\* stays logarithmic; each intermediate array is bound as a value (h), so that
\* it is computed once.

\* the push loop of getUniqueCoordinates over positions[lo..hi], from coords on
RECURSIVE uniquePush(_, _, _, _, _)
uniquePush(coords, positions, axis, lo, hi) ==
    IF lo > hi THEN coords
    ELSE IF lo = hi
         THEN IF Includes(coords, positions[lo][axis]) THEN coords
              ELSE Append(coords, positions[lo][axis])
         ELSE CHOOSE r \in
                 {uniquePush(h, positions, axis, ((lo + hi) \div 2) + 1, hi) :
                     h \in {uniquePush(coords, positions, axis, lo, (lo + hi) \div 2)}} : TRUE

getUniqueCoordinates(positions, axis) ==
    sortAscending(uniquePush(<<>>, positions, axis, 1, Len(positions)))

\* `${x},${y},${z}` of the string-key checker
positionKey(x, y, z) == ToString(x) \o "," \o ToString(y) \o "," \o ToString(z)

encodePosition(x, y, z) == x * X_MULTIPLIER + y * Y_MULTIPLIER + z * Z_MULTIPLIER

\* the entry a checker of the given snapshot stores for a position
checkerEntry(im, x, y, z) ==
    IF im = "keys" THEN positionKey(x, y, z) ELSE encodePosition(x, y, z)

\* the constructor's loop over positions[lo..hi], from the array held on: the
\* string-key checker skips a key it already holds, the number checker pushes
\* every position
RECURSIVE constructChecker(_, _, _, _, _)
constructChecker(im, held, positions, lo, hi) ==
    IF lo > hi THEN held
    ELSE IF lo = hi
         THEN LET e == checkerEntry(im, positions[lo][1], positions[lo][2], positions[lo][3])
              IN IF im = "keys" /\ Includes(held, e) THEN held ELSE Append(held, e)
         ELSE CHOOSE r \in
                 {constructChecker(im, h, positions, ((lo + hi) \div 2) + 1, hi) :
                     h \in {constructChecker(im, held, positions, lo, (lo + hi) \div 2)}} : TRUE

BlockExistenceChecker(im, positions) ==
    constructChecker(im, <<>>, positions, 1, Len(positions))

\* hasBlock that tests the index for truthiness: -1 (absent) counts as held,
\* index 0 as not held
hasBlock_truthy(im, held, x, y, z) == IndexOf(held, checkerEntry(im, x, y, z)) # 1

hasBlock(im, held, x, y, z) == Includes(held, checkerEntry(im, x, y, z))

removeBlock(im, held, x, y, z) ==
    LET index == IndexOf(held, checkerEntry(im, x, y, z))
    IN IF index # 0 THEN Splice(held, index) ELSE held

\* the call frame of optimizedFill: c.im the snapshot, c.held the checker's
\* array, c.xs, c.ys, c.zs the sorted distinct values of each axis

\* The expansion loops are folded over the index range lo..hi of the loop
\* counter, from the loop state st: st.max is maxX (maxY, maxZ) so far,
\* st.broken says that the loop has taken its break.

\* X expansion that never grows the box
expandX_none(c, x1i, y1i, z1i, maxY, maxZ, x2, maxX) == maxX

RECURSIVE expandXLoop(_, _, _, _, _, _, _, _)
expandXLoop(c, y1i, z1i, maxY, maxZ, st, lo, hi) ==
    IF st.broken \/ lo > hi THEN st
    ELSE IF lo = hi
         THEN LET canExpand == \A y \in y1i..maxY : \A z \in z1i..maxZ :
                                   hasBlock(c.im, c.held, c.xs[lo], c.ys[y], c.zs[z])
              IN IF canExpand THEN [max |-> lo, broken |-> FALSE]
                 ELSE [max |-> st.max, broken |-> TRUE]
         ELSE CHOOSE r \in
                 {expandXLoop(c, y1i, z1i, maxY, maxZ, h, ((lo + hi) \div 2) + 1, hi) :
                     h \in {expandXLoop(c, y1i, z1i, maxY, maxZ, st, lo, (lo + hi) \div 2)}} : TRUE

\* X expansion: x2 runs from x1 while every cell of [y1..maxY] x [z1..maxZ]
\* at x2 is held; the loop breaks at the first x2 that fails
expandX(c, x1i, y1i, z1i, maxY, maxZ, x2, maxX) ==
    expandXLoop(c, y1i, z1i, maxY, maxZ, [max |-> maxX, broken |-> FALSE], x2, Len(c.xs)).max

\* Y expansion that never grows the box
expandY_none(c, x1i, y1i, z1i, maxX, maxZ, y2, maxY) == maxY

RECURSIVE expandYLoop(_, _, _, _, _, _, _, _)
expandYLoop(c, x1i, z1i, maxX, maxZ, st, lo, hi) ==
    IF st.broken \/ lo > hi THEN st
    ELSE IF lo = hi
         THEN LET canExpand == \A x \in x1i..maxX : \A z \in z1i..maxZ :
                                   hasBlock(c.im, c.held, c.xs[x], c.ys[lo], c.zs[z])
              IN IF canExpand THEN [max |-> lo, broken |-> FALSE]
                 ELSE [max |-> st.max, broken |-> TRUE]
         ELSE CHOOSE r \in
                 {expandYLoop(c, x1i, z1i, maxX, maxZ, h, ((lo + hi) \div 2) + 1, hi) :
                     h \in {expandYLoop(c, x1i, z1i, maxX, maxZ, st, lo, (lo + hi) \div 2)}} : TRUE

expandY(c, x1i, y1i, z1i, maxX, maxZ, y2, maxY) ==
    expandYLoop(c, x1i, z1i, maxX, maxZ, [max |-> maxY, broken |-> FALSE], y2, Len(c.ys)).max

\* Z expansion that runs to the end of the grid without a test
expandZ_toEnd(c, x1i, y1i, z1i, maxX, maxY, z2, maxZ) == Len(c.zs)

RECURSIVE expandZLoop(_, _, _, _, _, _, _, _)
expandZLoop(c, x1i, y1i, maxX, maxY, st, lo, hi) ==
    IF st.broken \/ lo > hi THEN st
    ELSE IF lo = hi
         THEN LET canExpand == \A x \in x1i..maxX : \A y \in y1i..maxY :
                                   hasBlock(c.im, c.held, c.xs[x], c.ys[y], c.zs[lo])
              IN IF canExpand THEN [max |-> lo, broken |-> FALSE]
                 ELSE [max |-> st.max, broken |-> TRUE]
         ELSE CHOOSE r \in
                 {expandZLoop(c, x1i, y1i, maxX, maxY, h, ((lo + hi) \div 2) + 1, hi) :
                     h \in {expandZLoop(c, x1i, y1i, maxX, maxY, st, lo, (lo + hi) \div 2)}} : TRUE

expandZ(c, x1i, y1i, z1i, maxX, maxY, z2, maxZ) ==
    expandZLoop(c, x1i, y1i, maxX, maxY, [max |-> maxZ, broken |-> FALSE], z2, Len(c.zs)).max

\* a box grown along Y first, then X, then Z
growBox_yFirst(c, x1i, y1i, z1i) ==
    LET maxY == expandY(c, x1i, y1i, z1i, x1i, z1i, y1i, y1i)
        maxX == expandX(c, x1i, y1i, z1i, maxY, z1i, x1i, x1i)
        maxZ == expandZ(c, x1i, y1i, z1i, maxX, maxY, z1i, z1i)
    IN <<maxX, maxY, maxZ>>

\* the grown box <<maxX, maxY, maxZ>> of a start cell: X, then Y, then Z
growBox(c, x1i, y1i, z1i) ==
    LET maxX == expandX(c, x1i, y1i, z1i, y1i, z1i, x1i, x1i)
        maxY == expandY(c, x1i, y1i, z1i, maxX, z1i, y1i, y1i)
        maxZ == expandZ(c, x1i, y1i, z1i, maxX, maxY, z1i, z1i)
    IN <<maxX, maxY, maxZ>>

\* the removal loops over cells[lo..hi] of the emitted box, from the checker
\* array held on
RECURSIVE removeCells(_, _, _, _, _)
removeCells(c, held, cells, lo, hi) ==
    IF lo > hi THEN held
    ELSE IF lo = hi
         THEN removeBlock(c.im, held, c.xs[cells[lo][1]], c.ys[cells[lo][2]],
                          c.zs[cells[lo][3]])
         ELSE CHOOSE r \in
                 {removeCells(c, h, cells, ((lo + hi) \div 2) + 1, hi) :
                     h \in {removeCells(c, held, cells, lo, (lo + hi) \div 2)}} : TRUE

\* loop counters of a scan whose innermost loop runs over x
nextCell_xInnermost(c, x1i, y1i, z1i) ==
    IF x1i < Len(c.xs) THEN <<x1i + 1, y1i, z1i>>
    ELSE IF y1i < Len(c.ys) THEN <<1, y1i + 1, z1i>>
    ELSE IF z1i < Len(c.zs) THEN <<1, 1, z1i + 1>>
    ELSE <<Len(c.xs) + 1, 1, 1>>

\* loop counters that stay where they are
nextCell_stay(c, x1i, y1i, z1i) == <<x1i, y1i, z1i>>

\* the three loop counters after the innermost body ends
nextCell(c, x1i, y1i, z1i) ==
    IF z1i < Len(c.zs) THEN <<x1i, y1i, z1i + 1>>
    ELSE IF y1i < Len(c.ys) THEN <<x1i, y1i + 1, 1>>
    ELSE <<x1i + 1, 1, 1>>

\* blocks.fill(block, fromPos, toPos, FillOperation.Replace)
fillCall(b, fromPos, toPos) == [type |-> "fill", block |-> b, from |-> fromPos, to |-> toPos]
\* player.say(...): the message constant and the numbers formatted into it
sayCall(m, numbers) == [type |-> "say", msg |-> m, args |-> numbers]

\* --------------------------------------------------------------------- state
VARIABLES
    impl,          \* which snapshot of BlockExistenceChecker runs
    pc,            \* "idle", "dispatch", "batchLoop", "scan" or "done"
    op,            \* the top-level call: kind, positions, block, batchSize
    plan,          \* inputs of the direct optimizedFill calls still to be made
    todo,          \* batchPlaceBlocks calls handleShapeOperation has still to make
    batch,         \* batchPlaceBlocks frame: active, positions, block, i, size
    positions,     \* optimizedFill frame: the argument,
    block,         \*   the block,
    xs, ys, zs,    \*   the sorted distinct values per axis,
    blockChecker,  \*   the checker's array,
    x1, y1, z1,    \*   and the three scan loop counters
    callStart,     \* length of log when the running optimizedFill call began
    wholeStart,    \* length of log when the whole-sequence call began, else -1
    log,           \* the blocks.fill and player.say calls made so far, in order
    results,       \* per finished optimizedFill call: its input and its fills
    sampled,       \* what the sampler of op.shape returned: done, solid, shell
    returned       \* the arrays the repeated calls of one sampler returned, in call order

vars == <<impl, pc, op, plan, todo, batch, positions, block, xs, ys, zs,
          blockChecker, x1, y1, z1, callStart, wholeStart, log, results, sampled, returned>>

frame == <<positions, block, xs, ys, zs, blockChecker, x1, y1, z1, callStart>>

NoBatch == [active |-> FALSE, positions |-> <<>>, block |-> "", i |-> 0, size |-> 0]
NoShape == [kind |-> "none", center |-> <<0, 0, 0>>, p |-> <<>>]
NoOp == [kind |-> "none", positions |-> <<>>, block |-> "", batchSize |-> 0,
         shape |-> NoShape, operation |-> ""]
NoSamples == [done |-> {}, solid |-> <<>>, shell |-> <<>>]

\* the frame of the running optimizedFill call, as the growth operators read it
Call == [im |-> impl, held |-> blockChecker, xs |-> xs, ys |-> ys, zs |-> zs]

\* the fills of the optimizedFill call that is running or has just returned
CallFills == SubSeq(log, callStart + 1, Len(log))

InitCommon ==
    /\ impl \in Impls
    /\ todo = <<>>
    /\ batch = NoBatch
    /\ positions = <<>> /\ block = ""
    /\ xs = <<>> /\ ys = <<>> /\ zs = <<>>
    /\ blockChecker = <<>>
    /\ x1 = 1 /\ y1 = 1 /\ z1 = 1
    /\ callStart = 0
    /\ wholeStart = -1
    /\ log = <<>>
    /\ results = <<>>
    /\ sampled = NoSamples
    /\ returned = <<>>

Init == InitCommon /\ pc = "idle" /\ op = NoOp /\ plan = <<>>

\* a checker that pushes onto the array the previous call left behind
newBlockChecker_shared(C) == constructChecker(impl, blockChecker, C, 1, Len(C))

\* const blockChecker = new BlockExistenceChecker(positions)
newBlockChecker(C) == BlockExistenceChecker(impl, C)

\* optimizedFill(C, B) is entered with the log newLog; it returns at once on
\* an empty array, else it builds the axis arrays and the checker and starts
\* the scan at the first cell
EnterOptimizedFill(C, B, newLog, returnTo) ==
    /\ log' = newLog
    /\ IF Len(C) = 0
       THEN /\ pc' = returnTo
            /\ results' = Append(results, [positions |-> C, block |-> B, fills |-> <<>>])
            /\ UNCHANGED frame
       ELSE /\ pc' = "scan"
            /\ positions' = C
            /\ block' = B
            /\ xs' = getUniqueCoordinates(C, 1)
            /\ ys' = getUniqueCoordinates(C, 2)
            /\ zs' = getUniqueCoordinates(C, 3)
            /\ blockChecker' = newBlockChecker(C)
            /\ x1' = 1 /\ y1' = 1 /\ z1' = 1
            /\ callStart' = Len(newLog)
            /\ UNCHANGED results

\* a caller such as shapes.createLine hands a coordinate array to optimizedFill
CallOptimizedFill(C, B) ==
    /\ pc = "idle"
    /\ op' = [NoOp EXCEPT !.kind = "fill", !.positions = C, !.block = B]
    /\ EnterOptimizedFill(C, B, log, "done")
    /\ UNCHANGED <<impl, returned, plan, todo, batch, wholeStart, sampled>>

\* the scanned cell is not held: continue
ScanSkip ==
    /\ pc = "scan"
    /\ x1 <= Len(xs)
    /\ ~hasBlock(impl, blockChecker, xs[x1], ys[y1], zs[z1])
    /\ LET n == nextCell(Call, x1, y1, z1)
       IN x1' = n[1] /\ y1' = n[2] /\ z1' = n[3]
    /\ UNCHANGED <<impl, returned, pc, op, plan, todo, batch, positions, block, xs, ys, zs,
                   blockChecker, callStart, wholeStart, log, results, sampled>>

\* the scanned cell is held: grow the box, fill it, remove its cells
ScanEmit ==
    /\ pc = "scan"
    /\ x1 <= Len(xs)
    /\ hasBlock(impl, blockChecker, xs[x1], ys[y1], zs[z1])
    /\ \E m \in {growBox(Call, x1, y1, z1)} :
       LET fromPos == <<xs[x1], ys[y1], zs[z1]>>
           toPos == <<xs[m[1]], ys[m[2]], zs[m[3]]>>
           n == nextCell(Call, x1, y1, z1)
       IN /\ log' = Append(log, fillCall(block, fromPos, toPos))
          /\ \E cells \in {Grid3(x1, m[1], y1, m[2], z1, m[3])} :
                blockChecker' = removeCells(Call, blockChecker, cells, 1, Len(cells))
          /\ x1' = n[1] /\ y1' = n[2] /\ z1' = n[3]
    /\ UNCHANGED <<impl, returned, pc, op, plan, todo, batch, positions, block, xs, ys, zs,
                   callStart, wholeStart, results, sampled>>

\* the outer loop ends and optimizedFill returns to its caller
ScanReturn ==
    /\ pc = "scan"
    /\ x1 > Len(xs)
    /\ results' = Append(results, [positions |-> positions, block |-> block,
                                   fills |-> CallFills])
    /\ IF batch.active
       THEN /\ pc' = "batchLoop"
            /\ batch' = [batch EXCEPT !.i = @ + batch.size]
       ELSE /\ pc' = "done"
            /\ UNCHANGED batch
    /\ UNCHANGED <<impl, returned, op, plan, todo, frame, wholeStart, log, sampled>>

\* a caller such as shapes.optimizedLine hands a coordinate array to
\* batchPlaceBlocks, which cuts it into chunks of size
CallBatchPlaceBlocks(C, B, size) ==
    /\ pc = "idle"
    /\ op' = [NoOp EXCEPT !.kind = "batch", !.positions = C, !.block = B, !.batchSize = size]
    /\ todo' = <<[sample |-> FALSE, hollow |-> FALSE, positions |-> C, block |-> B]>>
    /\ pc' = "dispatch"
    /\ UNCHANGED <<impl, returned, plan, batch, frame, wholeStart, log, results, sampled>>

\* handleShapeOperation with the phases in the other order
handleShapeOperation_shellFirst(b, operation) ==
    IF operation = "Hollow"
    THEN <<[sample |-> TRUE, hollow |-> TRUE, positions |-> <<>>, block |-> b],
           [sample |-> TRUE, hollow |-> FALSE, positions |-> <<>>, block |-> "Air"]>>
    ELSE <<[sample |-> TRUE, hollow |-> (operation = "Outline"), positions |-> <<>>,
            block |-> b]>>

\* handleShapeOperation(block, operation, getPositions): the getPositions and
\* batchPlaceBlocks calls it makes, in order
handleShapeOperation(b, operation) ==
    IF operation = "Hollow"
    THEN <<[sample |-> TRUE, hollow |-> FALSE, positions |-> <<>>, block |-> "Air"],
           [sample |-> TRUE, hollow |-> TRUE, positions |-> <<>>, block |-> b]>>
    ELSE <<[sample |-> TRUE, hollow |-> (operation = "Outline"), positions |-> <<>>,
            block |-> b]>>

\* a shape command (optimizedCircle, optimizedSphere, cuboid, ...) is called;
\* optimizedSphere rejects a radius that is not positive
CallShapeOperation(shape, b, operation) ==
    /\ pc = "idle"
    /\ op' = [NoOp EXCEPT !.kind = "shape", !.block = b, !.batchSize = BATCH_SIZE,
                          !.shape = shape, !.operation = operation]
    /\ IF shape.kind = "sphere" /\ shape.p[1] <= 0
       THEN /\ log' = Append(log, sayCall("ERROR_INVALID_RADIUS", <<>>))
            /\ pc' = "done"
            /\ UNCHANGED todo
       ELSE /\ todo' = handleShapeOperation(b, operation)
            /\ pc' = "dispatch"
            /\ UNCHANGED log
    /\ UNCHANGED <<impl, returned, plan, batch, frame, wholeStart, results, sampled>>

\* sampled once getPositions(hollow) has returned
recordSample(hollow) ==
    IF hollow
    THEN [sampled EXCEPT !.done = @ \cup {TRUE}, !.shell = getPositions(op.shape, TRUE)]
    ELSE [sampled EXCEPT !.done = @ \cup {FALSE}, !.solid = getPositions(op.shape, FALSE)]

\* the positions argument of the next batchPlaceBlocks call: given by the
\* caller, or returned by getPositions(hollow)
phasePositions(t) == IF t.sample THEN getPositions(op.shape, t.hollow) ELSE t.positions

\* the log after getPositions has run, and what it returned as recorded
phaseLog(t) == IF t.sample THEN log \o samplerSays(op.shape) ELSE log
phaseSampled(t) == IF t.sample THEN recordSample(t.hollow) ELSE sampled

\* batchPlaceBlocks on an empty array returns without a message
BatchEnterEmpty ==
    /\ pc = "dispatch"
    /\ todo # <<>>
    /\ Len(phasePositions(Head(todo))) = 0
    /\ log' = phaseLog(Head(todo))
    /\ sampled' = phaseSampled(Head(todo))
    /\ todo' = Tail(todo)
    /\ UNCHANGED <<impl, returned, pc, op, plan, batch, frame, wholeStart, results>>

\* batchPlaceBlocks starts: totalBatches, the start message, i = 0
BatchEnter ==
    /\ pc = "dispatch"
    /\ todo # <<>>
    /\ \E arg \in {phasePositions(Head(todo))} :
          /\ Len(arg) > 0
          /\ log' = Append(phaseLog(Head(todo)),
                           sayCall("PLACEMENT_START",
                                   <<Len(arg), CeilDiv(Len(arg), op.batchSize)>>))
          /\ batch' = [active |-> TRUE, positions |-> arg, block |-> Head(todo).block,
                       i |-> 0, size |-> op.batchSize]
    /\ sampled' = phaseSampled(Head(todo))
    /\ todo' = Tail(todo)
    /\ pc' = "batchLoop"
    /\ UNCHANGED <<impl, returned, op, plan, frame, wholeStart, results>>

\* one iteration of the chunk loop: slice, message, optimizedFill(batch, block)
BatchIter ==
    /\ pc = "batchLoop"
    /\ batch.i < Len(batch.positions)
    /\ LET chunk == Slice(batch.positions, batch.i, batch.i + batch.size)
           batchNumber == (batch.i \div batch.size) + 1
           totalBatches == CeilDiv(Len(batch.positions), batch.size)
       IN EnterOptimizedFill(chunk, batch.block,
              Append(log, sayCall("BATCH_PROCESSING", <<batchNumber, totalBatches, Len(chunk)>>)),
              "batchLoop")
    /\ UNCHANGED <<impl, returned, op, plan, todo, batch, wholeStart, sampled>>

\* the chunk loop ends: the completion message, return
BatchExit ==
    /\ pc = "batchLoop"
    /\ batch.i >= Len(batch.positions)
    /\ log' = Append(log, sayCall("PLACEMENT_COMPLETE", <<>>))
    /\ batch' = NoBatch
    /\ pc' = "dispatch"
    /\ UNCHANGED <<impl, returned, op, plan, todo, frame, wholeStart, results, sampled>>

\* the caller of batchPlaceBlocks has no further call to make
DispatchReturn ==
    /\ pc = "dispatch"
    /\ todo = <<>>
    /\ pc' = "done"
    /\ UNCHANGED <<impl, returned, op, plan, todo, batch, frame, wholeStart, log, results, sampled>>

\* after a chunked placement, the same array is handed to optimizedFill whole
CallWhole ==
    /\ pc = "done"
    /\ op.kind = "batch"
    /\ wholeStart = -1
    /\ wholeStart' = Len(log)
    /\ EnterOptimizedFill(op.positions, op.block, log, "done")
    /\ UNCHANGED <<impl, returned, op, plan, todo, batch, sampled>>

Next ==
    \/ pc = "idle" /\ \E C \in InputSeqs, B \in FillBlocks : CallOptimizedFill(C, B)
    \/ pc = "idle" /\ \E C \in InputSeqs, B \in FillBlocks, size \in BatchSizes :
                          CallBatchPlaceBlocks(C, B, size)
    \/ pc = "idle" /\ \E shape \in OpShapes, B \in Blocks, operation \in Operations :
                          CallShapeOperation(shape, B, operation)
    \/ ScanSkip
    \/ ScanEmit
    \/ ScanReturn
    \/ BatchEnterEmpty
    \/ BatchEnter
    \/ BatchIter
    \/ BatchExit
    \/ DispatchReturn
    \/ CallWhole

Spec == Init /\ [][Next]_vars

\* ------------------------------------------------ a shape command as one step
\* The scan loops of optimizedFill folded over the grid cells lo..hi, counted
\* in the order of the three loops, from the state st: st.held is the
\* checker's array, st.fills the blocks.fill calls made so far.
RECURSIVE scanLoop(_, _, _, _, _, _, _, _)
scanLoop(im, gxs, gys, gzs, b, st, lo, hi) ==
    IF lo > hi THEN st
    ELSE IF lo = hi
         THEN LET cell == Grid3(1, Len(gxs), 1, Len(gys), 1, Len(gzs))[lo]
                  c == [im |-> im, held |-> st.held, xs |-> gxs, ys |-> gys, zs |-> gzs]
              IN IF ~hasBlock(im, st.held, gxs[cell[1]], gys[cell[2]], gzs[cell[3]]) THEN st
                 ELSE CHOOSE r \in
                         {[held |-> removeCells(c, st.held,
                                                Grid3(cell[1], m[1], cell[2], m[2], cell[3], m[3]), 1,
                                                Len(Grid3(cell[1], m[1], cell[2], m[2], cell[3], m[3]))),
                           fills |-> Append(st.fills,
                                            fillCall(b, <<gxs[cell[1]], gys[cell[2]], gzs[cell[3]]>>,
                                                     <<gxs[m[1]], gys[m[2]], gzs[m[3]]>>))] :
                             m \in {growBox(c, cell[1], cell[2], cell[3])}} : TRUE
         ELSE CHOOSE r \in
                 {scanLoop(im, gxs, gys, gzs, b, h, ((lo + hi) \div 2) + 1, hi) :
                     h \in {scanLoop(im, gxs, gys, gzs, b, st, lo, (lo + hi) \div 2)}} : TRUE

\* the blocks.fill calls of one optimizedFill(C, B) call, in order
optimizedFillRun(im, C, B) ==
    IF Len(C) = 0 THEN <<>>
    ELSE LET gxs == getUniqueCoordinates(C, 1)
             gys == getUniqueCoordinates(C, 2)
             gzs == getUniqueCoordinates(C, 3)
         IN scanLoop(im, gxs, gys, gzs, B,
                     [held |-> BlockExistenceChecker(im, C), fills |-> <<>>],
                     1, Len(gxs) * Len(gys) * Len(gzs)).fills

\* the chunk loop of batchPlaceBlocks from i on: per chunk the batch message
\* and the input and fills of its optimizedFill call
RECURSIVE batchLoopRun(_, _, _, _, _)
batchLoopRun(im, C, B, size, i) ==
    IF i >= Len(C) THEN <<>>
    ELSE LET chunk == Slice(C, i, i + size)
         IN <<[say |-> sayCall("BATCH_PROCESSING",
                               <<(i \div size) + 1, CeilDiv(Len(C), size), Len(chunk)>>),
               positions |-> chunk, block |-> B,
               fills |-> optimizedFillRun(im, chunk, B)]>>
            \o batchLoopRun(im, C, B, size, i + size)

\* the player.say and blocks.fill calls of the chunks, in order
RECURSIVE chunkLog(_)
chunkLog(chunks) ==
    IF chunks = <<>> THEN <<>>
    ELSE <<Head(chunks).say>> \o Head(chunks).fills \o chunkLog(Tail(chunks))

\* one getPositions(hollow) and batchPlaceBlocks(positions, block) pair of
\* handleShapeOperation: the chunks placed and the calls logged
phaseRun(im, shape, t) ==
    LET arg == getPositions(shape, t.hollow)
        chunks == batchLoopRun(im, arg, t.block, BATCH_SIZE, 0)
    IN [chunks |-> chunks,
        log |-> samplerSays(shape) \o
                (IF Len(arg) = 0 THEN <<>>
                 ELSE <<sayCall("PLACEMENT_START", <<Len(arg), CeilDiv(Len(arg), BATCH_SIZE)>>)>>
                      \o chunkLog(chunks)
                      \o <<sayCall("PLACEMENT_COMPLETE", <<>>)>>)]

RECURSIVE phasesRun(_, _, _)
phasesRun(im, shape, phases) ==
    IF phases = <<>> THEN [chunks |-> <<>>, log |-> <<>>]
    ELSE LET first == phaseRun(im, shape, Head(phases))
             rest == phasesRun(im, shape, Tail(phases))
         IN [chunks |-> first.chunks \o rest.chunks, log |-> first.log \o rest.log]

\* what the getPositions calls of the phases returned
samplesOf(shape, phases) ==
    [done |-> {phases[k].hollow : k \in DOMAIN phases},
     solid |-> IF \E k \in DOMAIN phases : ~phases[k].hollow
               THEN getPositions(shape, FALSE) ELSE <<>>,
     shell |-> IF \E k \in DOMAIN phases : phases[k].hollow
               THEN getPositions(shape, TRUE) ELSE <<>>]

\* a shape command runs from its call to its return
PlaceShape(shape, b, operation) ==
    /\ pc = "idle"
    /\ op' = [NoOp EXCEPT !.kind = "shape", !.block = b, !.batchSize = BATCH_SIZE,
                          !.shape = shape, !.operation = operation]
    /\ IF shape.kind = "sphere" /\ shape.p[1] <= 0
       THEN /\ log' = Append(log, sayCall("ERROR_INVALID_RADIUS", <<>>))
            /\ UNCHANGED <<results, sampled>>
       ELSE \E run \in {phasesRun(impl, shape, handleShapeOperation(b, operation))} :
               /\ log' = log \o run.log
               /\ results' = results \o
                     [k \in DOMAIN run.chunks |->
                         [positions |-> run.chunks[k].positions, block |-> run.chunks[k].block,
                          fills |-> run.chunks[k].fills]]
               /\ sampled' = samplesOf(shape, handleShapeOperation(b, operation))
    /\ pc' = "done"
    /\ UNCHANGED <<impl, returned, plan, todo, batch, frame, wholeStart>>

\* a cuboid one block wide and three high whose length passes Y_MULTIPLIER: its
\* coordinates take more than one chunk of BATCH_SIZE
LongCuboids == {cuboidShape(<<0, 0, 0>>, <<0, 2, Y_MULTIPLIER + 16>>)}

\* the shape commands called: every command of the model with every block and
\* operation, and the long cuboid with ShapeOperation.Hollow
PlaceCalls ==
    (OpShapes \X Blocks \X Operations) \cup (LongCuboids \X {"Stone"} \X {"Hollow"})

PlaceNext == \E call \in PlaceCalls : PlaceShape(call[1], call[2], call[3])

PlaceSpec == Init /\ [][PlaceNext]_vars

\* ------------------------------------------------- the repeated-call scenario
\* optimizedFill is called on A, then on B, then on A again
DetPoints == CoordX \X CoordY \X {0}
DetSeqs == UNION {[1..n -> DetPoints] : n \in 1..MaxDetLen}

DetInit ==
    /\ InitCommon /\ pc = "idle" /\ op = NoOp
    /\ \E A \in DetSeqs, B \in DetSeqs : plan = <<A, B, A>>

\* the next direct call of the scenario
CallPlanned ==
    /\ pc \in {"idle", "done"}
    /\ plan # <<>>
    /\ plan' = Tail(plan)
    /\ op' = [NoOp EXCEPT !.kind = "fill", !.positions = Head(plan), !.block = "Stone"]
    /\ EnterOptimizedFill(Head(plan), "Stone", log, "done")
    /\ UNCHANGED <<impl, returned, todo, batch, wholeStart, sampled>>

DetNext == CallPlanned \/ ScanSkip \/ ScanEmit \/ ScanReturn

DetSpec == DetInit /\ [][DetNext]_vars

\* ------------------------------------------------------- the sampler runs
\* a sampler is called on one shape, with hollow = false and hollow = true in
\* either order
SamplerInit ==
    /\ InitCommon
    /\ pc = "sample"
    /\ plan = <<>>
    /\ \E shape \in Shapes : op = [NoOp EXCEPT !.kind = "sample", !.shape = shape]

Sample(hollow) ==
    /\ pc = "sample"
    /\ hollow \notin sampled.done
    /\ sampled' = recordSample(hollow)
    /\ UNCHANGED <<impl, returned, pc, op, plan, todo, batch, frame, wholeStart, log, results>>

SamplerNext == \E hollow \in BOOLEAN : Sample(hollow)

SamplerSpec == SamplerInit /\ [][SamplerNext]_vars

\* --------------------------------------------------------- the curve runs
\* a line or Bezier sampler is called on one pair of end points
CurveInit ==
    /\ InitCommon
    /\ pc = "curve"
    /\ plan = <<>>
    /\ \E shape \in Curves : op = [NoOp EXCEPT !.kind = "curve", !.shape = shape]

SampleCurve ==
    /\ pc = "curve"
    /\ sampled.done = {}
    /\ sampled' = [done |-> {FALSE}, solid |-> getCurvePositions(op.shape), shell |-> <<>>]
    /\ UNCHANGED <<impl, returned, pc, op, plan, todo, batch, frame, wholeStart, log, results>>

CurveNext == SampleCurve

CurveSpec == CurveInit /\ [][CurveNext]_vars

\* ------------------------------------------------------ the repeated runs
\* one sampler is called twice with the same arguments; op.operation stands
\* for the hollow argument as handleShapeOperation derives it (Outline is
\* hollow = true)
RepeatInit ==
    /\ InitCommon
    /\ pc = "repeat"
    /\ plan = <<>>
    /\ \/ \E shape \in RepeatShapes, operation \in {"Replace", "Outline"} :
             op = [NoOp EXCEPT !.kind = "repeat", !.shape = shape, !.operation = operation]
       \/ \E shape \in RepeatCurves :
             op = [NoOp EXCEPT !.kind = "repeat", !.shape = shape, !.operation = "Replace"]

\* a sampler that makes no Math.random() call returns
SampleAgain ==
    /\ pc = "repeat"
    /\ Len(returned) < 2
    /\ op.shape.kind # "sphereDensity"
    /\ returned' = Append(returned,
                          IF op.shape.kind \in {"line", "bezier"} THEN getCurvePositions(op.shape)
                          ELSE getPositions(op.shape, op.operation = "Outline"))
    /\ UNCHANGED <<impl, pc, op, plan, todo, batch, frame, wholeStart, log, results, sampled>>

\* getSpherePositions with a density returns: each Math.random() comparison
\* of the call came out one way or the other
SampleSphereAgain ==
    /\ pc = "repeat"
    /\ Len(returned) < 2
    /\ op.shape.kind = "sphereDensity"
    /\ \E draws \in [1..Len(getSpherePositions(op.shape.center, op.shape.p[1],
                                                op.operation = "Outline", 1)) -> BOOLEAN] :
          returned' = Append(returned,
                             getSpherePositionsDrawn(op.shape.center, op.shape.p[1],
                                                     op.operation = "Outline", op.shape.p[2], draws))
    /\ UNCHANGED <<impl, pc, op, plan, todo, batch, frame, wholeStart, log, results, sampled>>

RepeatNext == SampleAgain \/ SampleSphereAgain

RepeatSpec == RepeatInit /\ [][RepeatNext]_vars

\* ------------------------------------------------- one direct call, run on
\* optimizedFill is called once on any input; its scan loops run on, since a
\* synchronous call is not suspended
FillNext ==
    \/ pc = "idle" /\ \E C \in InputSeqs, B \in FillBlocks : CallOptimizedFill(C, B)
    \/ ScanSkip
    \/ ScanEmit
    \/ ScanReturn

FairSpec == Init /\ [][FillNext]_vars /\ WF_vars(ScanSkip \/ ScanEmit \/ ScanReturn)

\* ------------------------------------------------- boxes and lattice points
\* p lies in the inclusive box a blocks.fill call covers
InBox(p, f) == \A a \in 1..3 :
    Min(f.from[a], f.to[a]) <= p[a] /\ p[a] <= Max(f.from[a], f.to[a])

\* number of lattice points of the box of a blocks.fill call
Volume(f) ==
    LET edge(a) == Max(f.from[a], f.to[a]) - Min(f.from[a], f.to[a]) + 1
    IN edge(1) * edge(2) * edge(3)

\* the lattice points of the box of a blocks.fill call
LatticePoints(f) ==
    (Min(f.from[1], f.to[1])..Max(f.from[1], f.to[1])) \X
    (Min(f.from[2], f.to[2])..Max(f.from[2], f.to[2])) \X
    (Min(f.from[3], f.to[3])..Max(f.from[3], f.to[3]))

Covered(fills) == UNION {LatticePoints(fills[i]) : i \in DOMAIN fills}

\* two boxes share a lattice point
Overlap(f, g) == \A a \in 1..3 :
    /\ Min(f.from[a], f.to[a]) <= Max(g.from[a], g.to[a])
    /\ Min(g.from[a], g.to[a]) <= Max(f.from[a], f.to[a])

\* every lattice point of the box is an element of C: the points of C inside
\* the box are as many as the box has lattice points
BoxWithin(f, C) == Cardinality({p \in Range(C) : InBox(p, f)}) = Volume(f)

FillsOf(events) == SelectSeq(events, LAMBDA e : e.type = "fill")

\* C lists every lattice point of its bounding box exactly once
IsCuboid(C) ==
    /\ Len(C) > 0
    /\ Cardinality(Range(C)) = Len(C)
    /\ LET lo(a) == SetMin({C[i][a] : i \in DOMAIN C})
           hi(a) == SetMax({C[i][a] : i \in DOMAIN C})
       IN Len(C) = (hi(1) - lo(1) + 1) * (hi(2) - lo(2) + 1) * (hi(3) - lo(3) + 1)

BoundingFill(C, B) ==
    fillCall(B, <<SetMin({C[i][1] : i \in DOMAIN C}), SetMin({C[i][2] : i \in DOMAIN C}),
                  SetMin({C[i][3] : i \in DOMAIN C})>>,
                <<SetMax({C[i][1] : i \in DOMAIN C}), SetMax({C[i][2] : i \in DOMAIN C}),
                  SetMax({C[i][3] : i \in DOMAIN C})>>)

\* indices of the blocks.fill calls in the log
FillIndices == {i \in DOMAIN log : log[i].type = "fill"}

\* the batchPlaceBlocks call (first, second, ...) that log[i] belongs to: the
\* number of start messages up to i
PhaseOf(i) ==
    Cardinality({j \in 1..i : log[j].type = "say" /\ log[j].msg = "PLACEMENT_START"})

\* a shape command has called handleShapeOperation: it did not reject its
\* arguments
ShapeHandled ==
    /\ op.kind = "shape"
    /\ \A i \in DOMAIN log : ~(log[i].type = "say" /\ log[i].msg = "ERROR_INVALID_RADIUS")

\* the optimizedFill calls a shape command makes when its phases are handed
\* the position arrays and blocks of phases, in order: each non-empty array as
\* one chunk (no shape of the model reaches BATCH_SIZE positions), an empty
\* array as no call
PhaseCalls(phases) ==
    LET nonEmpty == SelectSeq(phases, LAMBDA t : Len(t.positions) > 0)
    IN [k \in DOMAIN nonEmpty |-> [positions |-> nonEmpty[k].positions, block |-> nonEmpty[k].block]]

\* the input and block of every finished optimizedFill call, in call order
CallsMade == [k \in DOMAIN results |-> [positions |-> results[k].positions, block |-> results[k].block]]

\* how often the array holds v
Occurrences(arr, v) == Cardinality({i \in DOMAIN arr : arr[i] = v})

\* the scan position as one number: cells before it in the loop order
ScanRank == ((x1 - 1) * Len(ys) + (y1 - 1)) * Len(zs) + (z1 - 1)

\* ---------------------------------------------------------------- claims

\* C1 (as claimed): when an optimizedFill call has returned, every coordinate
\* of its input lies inside at least one box the call passed to blocks.fill.
C1_Completeness ==
    \A i \in DOMAIN results :
        \A p \in Range(results[i].positions) :
            \E k \in DOMAIN results[i].fills : InBox(p, results[i].fills[k])

\* C2 (as claimed): no box an optimizedFill call passed to blocks.fill holds a
\* lattice coordinate that is absent from the call's input.
C2_Soundness ==
    \A i \in DOMAIN results :
        \A k \in DOMAIN results[i].fills :
            BoxWithin(results[i].fills[k], results[i].positions)

\* C3 (as claimed): the boxes one optimizedFill call emits are pairwise
\* disjoint, also when the input repeats a coordinate.
C3_Disjointness ==
    \A i \in DOMAIN results :
        \A k, l \in DOMAIN results[i].fills :
            k # l => ~Overlap(results[i].fills[k], results[i].fills[l])

\* C4: the number of blocks.fill calls of an optimizedFill call never exceeds
\* the number of coordinates of its input, during the call and at its return,
\* and is zero for an empty input.
C4_BoxCountBound ==
    /\ pc = "scan" => Len(CallFills) <= Len(positions)
    /\ \A i \in DOMAIN results :
          /\ Len(results[i].fills) <= Len(results[i].positions)
          /\ Len(results[i].positions) = 0 => results[i].fills = <<>>

\* C4 witness: a finished call on three coordinates that emitted three boxes.
C4_Witness ==
    \E i \in DOMAIN results :
        Len(results[i].positions) = 3 /\ Len(results[i].fills) = 3

\* C5: when the input lists exactly the lattice points of an axis-aligned box,
\* each once and in any order, optimizedFill makes exactly one blocks.fill
\* call, from the box's minimum corner to its maximum corner.
C5_SingleBoxForCuboid ==
    \A i \in DOMAIN results :
        IsCuboid(results[i].positions) =>
            results[i].fills = <<BoundingFill(results[i].positions, results[i].block)>>

\* C5 witness: a finished call on a cuboid that extends along two axes and is
\* not given in scan order.
C5_Witness ==
    \E i \in DOMAIN results :
        /\ IsCuboid(results[i].positions)
        /\ Len(results[i].positions) >= 4
        /\ results[i].positions[1] # BoundingFill(results[i].positions, "").from
        /\ Len(results[i].fills) = 1

\* C6: two optimizedFill calls with the same input and block emit the same
\* sequence of blocks.fill calls, whatever call was made between them.
C6_Determinism ==
    \A i, j \in DOMAIN results :
        (results[i].positions = results[j].positions /\ results[i].block = results[j].block)
            => results[i].fills = results[j].fills

\* C6 witness: the same input was compacted twice, with a call on a different
\* input that repeats a coordinate between the two.
C6_Witness ==
    /\ Len(results) = 3
    /\ results[1].positions = results[3].positions
    /\ results[2].positions # results[1].positions
    /\ Cardinality(Range(results[2].positions)) < Len(results[2].positions)
    /\ Len(results[3].fills) >= 2

\* C7: every optimizedFill call terminates; a scan step that stays in the loop
\* moves the scan position strictly forward, and either leaves the checker
\* and the log alone (a skip) or emits one box at a held start cell and removes
\* an entry of that start cell from the checker.
C7_Termination ==
    /\ [][(pc = "scan" /\ pc' = "scan" /\ positions' = positions /\ callStart' = callStart) =>
            /\ ScanRank' > ScanRank
            /\ \/ (log' = log /\ blockChecker' = blockChecker)
               \/ /\ Len(log') = Len(log) + 1
                  /\ hasBlock(impl, blockChecker, xs[x1], ys[y1], zs[z1])
                  /\ Occurrences(blockChecker', checkerEntry(impl, xs[x1], ys[y1], zs[z1]))
                       < Occurrences(blockChecker, checkerEntry(impl, xs[x1], ys[y1], zs[z1]))]_vars
    /\ [](pc = "scan" => <>(pc # "scan"))

\* C7 witness: a scan that skipped a cell and emitted two boxes has returned.
C7_Witness ==
    /\ pc = "done"
    /\ op.kind = "fill"
    /\ Len(CallFills) >= 2
    /\ Len(xs) * Len(ys) * Len(zs) > Len(CallFills)

\* C8 (as claimed): when a chunked placement and a whole-sequence call on the
\* same coordinate sequence have both finished, the union of the boxes of the
\* chunks is the set of coordinates of the sequence, and it is the union of
\* the boxes of the whole-sequence call.
C8_ChunkedCover ==
    (pc = "done" /\ wholeStart >= 0) =>
        LET chunked == FillsOf(SubSeq(log, 1, wholeStart))
            whole == FillsOf(SubSeq(log, wholeStart + 1, Len(log)))
        IN /\ \A k \in DOMAIN chunked : BoxWithin(chunked[k], op.positions)
           /\ \A p \in Range(op.positions) : \E k \in DOMAIN chunked : InBox(p, chunked[k])
           /\ Covered(chunked) = Covered(whole)

\* C9: for every sampler with a hollow flag and every parameter tuple, each
\* coordinate returned with hollow = true is also returned with hollow = false;
\* and every point the midpoint loop of getCirclePositions returns lies in the
\* plane of the circle at a squared distance of at most radius^2 from the center.
C9_HollowSubsetOfSolid ==
    /\ sampled.done = {TRUE, FALSE} => Range(sampled.shell) \subseteq Range(sampled.solid)
    /\ (op.shape.kind = "circle" /\ TRUE \in sampled.done) =>
          \A q \in Range(sampled.shell) :
              /\ q[op.shape.p[2]] = op.shape.center[op.shape.p[2]]
              /\ (q[1] - op.shape.center[1]) * (q[1] - op.shape.center[1])
                 + (q[2] - op.shape.center[2]) * (q[2] - op.shape.center[2])
                 + (q[3] - op.shape.center[3]) * (q[3] - op.shape.center[3])
                 <= op.shape.p[1] * op.shape.p[1]

\* C9 witness: a circle of radius 3 was sampled both ways, its outline has
\* points and is not the whole disc.
C9_Witness ==
    /\ op.shape.kind = "circle" /\ op.shape.p[1] = 3
    /\ sampled.done = {TRUE, FALSE}
    /\ sampled.shell # <<>>
    /\ Range(sampled.shell) # Range(sampled.solid)

\* C10 (as claimed): when handleShapeOperation runs, under Hollow every blocks.fill call that places Air over
\* the solid coordinate set comes before every blocks.fill call that places
\* the requested block over the shell coordinate set; under Replace and
\* Outline no blocks.fill call places Air.
C10_AsClaimed ==
    (ShapeHandled /\ pc = "done") =>
        IF op.operation = "Hollow"
        THEN \A i, j \in FillIndices :
                (/\ log[j].block = "Air" /\ BoxWithin(log[j], sampled.solid)
                 /\ log[i].block = op.block /\ BoxWithin(log[i], sampled.shell)) => j < i
        ELSE \A i \in FillIndices : log[i].block # "Air"

\* C10 (amended): handleShapeOperation makes at most two batchPlaceBlocks calls
\* under Hollow and at most one under Replace and Outline.  Under Hollow the
\* first call is handed the hollow = false array and places only Air, the
\* second is handed the hollow = true array and places only the requested
\* block, and when the requested block is not Air no Air is placed after the
\* requested block.  Under Replace (Outline) only hollow = false (hollow =
\* true) is sampled and handed on, and every blocks.fill call places the
\* requested block, so Air only when Air is requested.
C10_TwoPhaseOrdered ==
    ShapeHandled =>
        IF op.operation = "Hollow"
        THEN /\ \A i \in FillIndices :
                   /\ PhaseOf(i) \in {1, 2}
                   /\ PhaseOf(i) = 1 => log[i].block = "Air"
                   /\ PhaseOf(i) = 2 => log[i].block = op.block
             /\ op.block # "Air" =>
                   \A i, j \in FillIndices :
                       (log[i].block = op.block /\ log[j].block = "Air") => j < i
             /\ pc = "done" =>
                   /\ sampled.done = {FALSE, TRUE}
                   /\ CallsMade = PhaseCalls(<<[positions |-> sampled.solid, block |-> "Air"],
                                               [positions |-> sampled.shell, block |-> op.block]>>)
        ELSE /\ \A i \in FillIndices : PhaseOf(i) = 1 /\ log[i].block = op.block
             /\ sampled.done \subseteq {op.operation = "Outline"}
             /\ pc = "done" =>
                   /\ sampled.done = {op.operation = "Outline"}
                   /\ CallsMade = PhaseCalls(<<[positions |-> IF op.operation = "Outline"
                                                              THEN sampled.shell ELSE sampled.solid,
                                                block |-> op.block]>>)

\* C10 witness: a Hollow sphere of radius 2 in Stone has finished: Air was
\* placed first, Stone after it, and the shell is not the whole ball.
C10_Witness ==
    /\ op.kind = "shape" /\ op.operation = "Hollow" /\ op.block = "Stone"
    /\ op.shape.kind = "sphere" /\ op.shape.p = <<2>>
    /\ pc = "done"
    /\ Range(sampled.shell) # Range(sampled.solid)
    /\ \E i, j \in FillIndices : i < j /\ log[i].block = "Air" /\ log[j].block = "Stone"

\* the images of the offset d under every choice of signs and every
\* permutation of its three components
OctahedralImages(d) ==
    {<<s1 * d[perm[1]], s2 * d[perm[2]], s3 * d[perm[3]]>> :
        s1 \in {1, -1}, s2 \in {1, -1}, s3 \in {1, -1},
        perm \in {f \in [1..3 -> 1..3] : \A i, j \in 1..3 : i # j => f[i] # f[j]}}

\* the offsets of a set of positions from a center
OffsetsFrom(center, S) == {<<q[1] - center[1], q[2] - center[2], q[3] - center[3]>> : q \in S}

\* C11: the solid sphere a sphere sampler returns (density 1) holds
\* center + d exactly when it holds center + d' for every image d' of d under
\* a change of signs and a permutation of the three offsets; this is so for
\* getSpherePositions of coordinates.ts and for the one inlined in shapesExt.ts.
C11_SphereSymmetry ==
    (op.shape.kind \in {"sphere", "sphereExt"} /\ FALSE \in sampled.done) =>
        LET offsets == OffsetsFrom(op.shape.center, Range(sampled.solid))
        IN \A d \in offsets : OctahedralImages(d) \subseteq offsets

\* C11 witness: a solid sphere of radius 3 was sampled next to the upper Y
\* bound; it holds the offset (2, 1, 0) and not the offset (3, 1, 0).
C11_Witness ==
    /\ op.shape.kind = "sphere" /\ op.shape.p = <<3>>
    /\ op.shape.center = <<0, Y_MAX - 1, 0>>
    /\ FALSE \in sampled.done
    /\ <<2, Y_MAX, 0>> \in Range(sampled.solid)
    /\ <<3, Y_MAX, 0>> \notin Range(sampled.solid)

\* C12: getCuboidPositions returns the same coordinate sequence when its two
\* corners are exchanged, with hollow = false and with hollow = true.
C12_CuboidCornerOrder ==
    op.shape.kind = "cuboid" =>
        /\ FALSE \in sampled.done =>
               sampled.solid = getCuboidPositions(op.shape.p, op.shape.center, FALSE)
        /\ TRUE \in sampled.done =>
               sampled.shell = getCuboidPositions(op.shape.p, op.shape.center, TRUE)

\* C12 witness: a cuboid whose second corner lies below the first on one axis
\* and above it on the two others was sampled both ways.
C12_Witness ==
    /\ op.shape.kind = "cuboid"
    /\ op.shape.p[1] < op.shape.center[1]
    /\ op.shape.p[2] > op.shape.center[2] + 1
    /\ op.shape.p[3] > op.shape.center[3] + 1
    /\ sampled.done = {TRUE, FALSE}
    /\ Len(sampled.solid) = 18
    /\ sampled.solid[1] # op.shape.center

\* the largest of |dx|, |dy|, |dz| between two points
ChebyshevDistance(p0, p1) ==
    SetMax({Max(p1[a] - p0[a], p0[a] - p1[a]) : a \in 1..3})

\* a line sampler has returned
LineSampled == op.shape.kind = "line" /\ FALSE \in sampled.done

\* C13: when p0 and p1 agree on fewer than two axes, getLinePositions returns
\* exactly 1 + max(|dx|, |dy|, |dz|) coordinates, the first equal to p0 and the
\* last equal to p1.
C13_DigitalLine ==
    (LineSampled /\ EqualAxes(op.shape.center, op.shape.p) < 2) =>
        /\ Len(sampled.solid) = 1 + ChebyshevDistance(op.shape.center, op.shape.p)
        /\ sampled.solid[1] = op.shape.center
        /\ sampled.solid[Len(sampled.solid)] = op.shape.p

\* C13 witness: the line from (0, 0, 0) to (3, 2, -3) was sampled: 4 points
\* that differ from one another.
C13_Witness ==
    /\ LineSampled
    /\ op.shape.center = <<0, 0, 0>> /\ op.shape.p = <<3, 2, -3>>
    /\ Len(sampled.solid) = 4
    /\ Cardinality(Range(sampled.solid)) = 4

\* C14: when p0 and p1 agree on two axes or more, getLinePositions returns
\* the lattice points of the segment between them, each once: 1 + max(|dx|,
\* |dy|, |dz|) coordinates, also when p1 lies below p0.
C14_DegenerateLine ==
    (LineSampled /\ EqualAxes(op.shape.center, op.shape.p) >= 2) =>
        /\ Len(sampled.solid) = 1 + ChebyshevDistance(op.shape.center, op.shape.p)
        /\ Cardinality(Range(sampled.solid)) = Len(sampled.solid)
        /\ Range(sampled.solid) =
              {q \in (Min(op.shape.center[1], op.shape.p[1])..Max(op.shape.center[1], op.shape.p[1]))
                      \X (Min(op.shape.center[2], op.shape.p[2])..Max(op.shape.center[2], op.shape.p[2]))
                      \X (Min(op.shape.center[3], op.shape.p[3])..Max(op.shape.center[3], op.shape.p[3])) :
                  TRUE}

\* C14 witness: the segment from (1, -2, 3) down to (1, -2, 0) was sampled.
C14_Witness ==
    /\ LineSampled
    /\ op.shape.center = <<1, -2, 3>> /\ op.shape.p = <<1, -2, 0>>
    /\ Len(sampled.solid) = 4

\* C15: the first coordinate getVariableBezierCurvePositions returns is the
\* start point and the last is the end point, for every list of control
\* points, the empty list included.
C15_BezierEndpoints ==
    (op.shape.kind = "bezier" /\ FALSE \in sampled.done) =>
        /\ Len(sampled.solid) >= 1
        /\ sampled.solid[1] = op.shape.center
        /\ sampled.solid[Len(sampled.solid)] = op.shape.p[2]

\* C15 witness: a curve with two control points off the straight path was
\* sampled; it passes through more points than its two end points.
C15_Witness ==
    /\ op.shape.kind = "bezier" /\ FALSE \in sampled.done
    /\ Len(op.shape.p[1]) = 2
    /\ op.shape.p[1][1] # op.shape.p[1][2]
    /\ op.shape.center # op.shape.p[2]
    /\ Len(sampled.solid) > 3

\* C16 (as claimed): every coordinate a sampler returns lies within the world
\* bounds: x and z in [X_MIN, X_MAX] and y in [Y_MIN, Y_MAX].
C16_WorldBounds ==
    \A q \in Range(sampled.solid) \cup Range(sampled.shell) :
        validateCoordinates(q[1], q[2], q[3])

\* a radius or height argument of the shape is not positive
HasInvalidParameter(shape) ==
    /\ shape.kind \in {"circle", "sphere", "cylinder", "cone", "torus", "ellipsoid",
                        "paraboloid", "hyperboloid"}
    /\ \E i \in DOMAIN shape.p : shape.p[i] <= 0

\* C17 (as claimed): a sampler called with a radius or height argument that
\* is not positive returns the empty coordinate set.
C17_InvalidParametersEmpty ==
    (op.kind = "sample" /\ HasInvalidParameter(op.shape)) =>
        sampled.solid = <<>> /\ sampled.shell = <<>>

\* C18 (as claimed): two calls of a sampler with the same arguments return the
\* same coordinate sequence, getSpherePositions with a density between 0.1 and
\* 1.0 included.
C18_SamplerDeterminism ==
    Len(returned) = 2 => returned[1] = returned[2]

\* C19: batchPlaceBlocks on a non-empty sequence of N coordinates calls
\* optimizedFill exactly ceil(N / size) times for its chunk size (BATCH_SIZE in
\* the source): the k-th call is handed the k-th consecutive slice of the
\* sequence in the original order, of at least one and at most size
\* coordinates, so that every element belongs to exactly one slice.
C19_BatchPartition ==
    (op.kind = "batch" /\ wholeStart = -1) =>
        LET N == Len(op.positions)
            size == op.batchSize
            total == (N + size - 1) \div size
        IN /\ Len(results) <= total
           /\ \A k \in DOMAIN results :
                 /\ results[k].block = op.block
                 /\ results[k].positions =
                       [i \in 1..(IF k * size <= N THEN size ELSE N - (k - 1) * size) |->
                           op.positions[(k - 1) * size + i]]
                 /\ Len(results[k].positions) >= 1
                 /\ Len(results[k].positions) <= size
           /\ pc = "done" => Len(results) = total

\* C19 witness: three coordinates were placed in chunks of two: a full chunk
\* and a last chunk of one.
C19_Witness ==
    /\ op.kind = "batch" /\ wholeStart = -1 /\ pc = "done"
    /\ Len(op.positions) = 3 /\ op.batchSize = 2
    /\ Len(results) = 2
    /\ Len(results[1].positions) = 2 /\ Len(results[2].positions) = 1

\* C20: a coordinate that the sequence handed to BlockExistenceChecker repeats
\* is stored once: whatever the checker of the running optimizedFill holds, a
\* single removeBlock(x, y, z) of such a coordinate makes hasBlock(x, y, z) false.
C20_MembershipDeduplication ==
    pc = "scan" =>
        \A i, j \in DOMAIN positions :
            (i < j /\ positions[i] = positions[j]) =>
                LET x == positions[i][1]
                    y == positions[i][2]
                    z == positions[i][3]
                IN ~hasBlock(impl, removeBlock(impl, blockChecker, x, y, z), x, y, z)

\* C21: encodePosition is injective on coordinates inside the world bounds:
\* two different coordinates of the sequence handed to the number checker have
\* different encoded numbers, and hasBlock is true of a grid cell only if the
\* cell's coordinate is in that sequence.
C21_EncodingInjective ==
    (pc = "scan" /\ impl = "numbers") =>
        /\ \A i, j \in DOMAIN positions :
              positions[i] # positions[j] =>
                  encodePosition(positions[i][1], positions[i][2], positions[i][3])
                    # encodePosition(positions[j][1], positions[j][2], positions[j][3])
        /\ \A x \in DOMAIN xs, y \in DOMAIN ys, z \in DOMAIN zs :
              hasBlock(impl, blockChecker, xs[x], ys[y], zs[z]) =>
                  <<xs[x], ys[y], zs[z]>> \in Range(positions)

\* the grid-index range <<maxX, maxY, maxZ>> of the box the step emits, read
\* back from the corner handed to blocks.fill
EmittedMax ==
    LET toPos == log'[Len(log')].to
    IN <<IndexOf(xs, toPos[1]), IndexOf(ys, toPos[2]), IndexOf(zs, toPos[3])>>

\* the step is a blocks.fill call of the running optimizedFill call
EmitsBox == pc = "scan" /\ Len(log') = Len(log) + 1 /\ log'[Len(log')].type = "fill"

\* C22: at the moment optimizedFill calls blocks.fill for the grid-index range
\* [x1..maxX] x [y1..maxY] x [z1..maxZ], every grid cell of that range is held
\* by the checker; with the string-key checker of coordinates.ts both corners
\* are input coordinates and each removeBlock of the removal loops takes out
\* one held entry.
C22_BoxCellsPresent ==
    [][EmitsBox =>
         LET m == EmittedMax
             lastFill == log'[Len(log')]
         IN /\ m[1] >= x1 /\ m[2] >= y1 /\ m[3] >= z1
            /\ lastFill.from = <<xs[x1], ys[y1], zs[z1]>>
            /\ \A x \in x1..m[1], y \in y1..m[2], z \in z1..m[3] :
                  hasBlock(impl, blockChecker, xs[x], ys[y], zs[z])
            /\ impl = "keys" =>
                  /\ lastFill.from \in Range(positions)
                  /\ lastFill.to \in Range(positions)
                  /\ Len(blockChecker') = Len(blockChecker)
                        - (m[1] - x1 + 1) * (m[2] - y1 + 1) * (m[3] - z1 + 1)]_vars

\* C22 witness: the string-key optimizedFill has emitted a box of four cells.
C22_Witness ==
    /\ pc = "scan" /\ impl = "keys"
    /\ Len(CallFills) = 1
    /\ Len(positions) = 4 /\ Len(blockChecker) = 0
    /\ CallFills[1].from # CallFills[1].to

\* the grid cell <<x, y, z>> is held by the checker of the running call
Present(x, y, z) == hasBlock(impl, blockChecker, xs[x], ys[y], zs[z])

\* the longest runs of the greedy growth from the scanned cell: along X at
\* (y1, z1), then along Y over the X range up to maxX at z1, then along Z over
\* the X-Y range up to maxX, maxY
LongestRunX == SetMax({a \in x1..Len(xs) : \A x \in x1..a : Present(x, y1, z1)})
LongestRunY(maxX) ==
    SetMax({b \in y1..Len(ys) : \A y \in y1..b : \A x \in x1..maxX : Present(x, y, z1)})
LongestRunZ(maxX, maxY) ==
    SetMax({d \in z1..Len(zs) :
               \A z \in z1..d : \A x \in x1..maxX : \A y \in y1..maxY : Present(x, y, z)})

\* C23: the box emitted from a present start cell (x1, y1, z1) has as X extent
\* the longest run of consecutive grid X indices from x1 whose cell at (y1, z1)
\* is present, then as Y extent the longest run from y1 for which every cell of
\* that X range at z1 is present, then as Z extent the longest run from z1 for
\* which every cell of that X-Y range is present.
C23_GreedyGrowthOrder ==
    [][EmitsBox =>
         LET m == EmittedMax
         IN /\ Present(x1, y1, z1)
            /\ m[1] = LongestRunX
            /\ m[2] = LongestRunY(m[1])
            /\ m[3] = LongestRunZ(m[1], m[2])]_vars

\* C23 witness: from the corner of an L of three cells the box was grown along
\* X, where growing along Y first was possible too.
C23_Witness ==
    /\ pc = "scan"
    /\ Range(positions) = {<<0, 0, 0>>, <<1, 0, 0>>, <<0, 1, 0>>}
    /\ Len(CallFills) = 1
    /\ CallFills[1].from = <<0, 0, 0>> /\ CallFills[1].to = <<1, 0, 0>>

\* C24: at the moment a box is emitted it cannot be extended by one further
\* grid index in the +X, the +Y or the +Z direction with all newly included
\* grid cells present.
C24_BoxMaximal ==
    [][EmitsBox =>
         LET m == EmittedMax
         IN /\ ~(/\ m[1] < Len(xs)
                 /\ \A y \in y1..m[2], z \in z1..m[3] : Present(m[1] + 1, y, z))
            /\ ~(/\ m[2] < Len(ys)
                 /\ \A x \in x1..m[1], z \in z1..m[3] : Present(x, m[2] + 1, z))
            /\ ~(/\ m[3] < Len(zs)
                 /\ \A x \in x1..m[1], y \in y1..m[2] : Present(x, y, m[3] + 1))]_vars

\* C24 witness: a box of two cells along X was emitted that the grid would
\* let grow along Y, where one of the two new cells is absent.
C24_Witness ==
    /\ pc = "scan"
    /\ Range(positions) = {<<0, 0, 0>>, <<1, 0, 0>>, <<1, 1, 0>>}
    /\ Len(CallFills) = 1
    /\ CallFills[1].from = <<0, 0, 0>> /\ CallFills[1].to = <<1, 0, 0>>

\* the place of a fill's start cell in the lexicographic order of the grid
\* indices (x index, then y index, then z index)
StartRank(f) ==
    ((IndexOf(xs, f.from[1]) - 1) * Len(ys) + (IndexOf(ys, f.from[2]) - 1)) * Len(zs)
        + (IndexOf(zs, f.from[3]) - 1)

\* C25: within one optimizedFill call the boxes are emitted in strictly
\* ascending lexicographic order of their start grid index, and a cell is used
\* as a start cell only if the checker still holds it when the scan reaches it.
C25_ScanOrder ==
    [][EmitsBox =>
         /\ Present(x1, y1, z1)
         /\ log'[Len(log')].from = <<xs[x1], ys[y1], zs[z1]>>
         /\ StartRank(log'[Len(log')]) = ScanRank
         /\ \A k \in DOMAIN CallFills : StartRank(CallFills[k]) < ScanRank]_vars

\* C25 witness: one call has emitted two boxes, the second from a later cell.
C25_Witness ==
    /\ pc = "scan"
    /\ Len(CallFills) = 2
    /\ StartRank(CallFills[1]) < StartRank(CallFills[2])
    /\ CallFills[1].from[1] > CallFills[2].from[1] \/ CallFills[1].from[2] > CallFills[2].from[2]
         \/ CallFills[1].from[3] > CallFills[2].from[3]

\* the messages and fills of chunks k..total of a finished batchPlaceBlocks
\* call on N coordinates: each chunk's batch message, then the fills of the
\* optimizedFill call made for it
RECURSIVE BatchTrace(_, _, _, _)
BatchTrace(k, total, N, size) ==
    IF k > total THEN <<>>
    ELSE <<sayCall("BATCH_PROCESSING",
                   <<k, total, IF k * size <= N THEN size ELSE N - (k - 1) * size>>)>>
         \o results[k].fills
         \o BatchTrace(k + 1, total, N, size)

FinalBlock(p) ==
    LET reached == {i \in FillIndices : InBox(p, log[i])}
    IN IF reached = {} THEN "before" ELSE log[SetMax(reached)].block

\* C27: after a shape operation with ShapeOperation.Hollow completes, every
\* coordinate of the shell (hollow = true) set holds the requested block,
\* every coordinate of the solid (hollow = false) set that is not in the shell
\* set holds Air, and every coordinate outside the solid set holds the block
\* it held before the call.
C27_HollowFinalWorld ==
    (ShapeHandled /\ op.operation = "Hollow" /\ pc = "done") =>
        LET solid == Range(sampled.solid)
            shell == Range(sampled.shell)
        IN /\ \A p \in shell : FinalBlock(p) = op.block
           /\ \A p \in solid \ shell : FinalBlock(p) = "Air"
           /\ \A p \in Covered(FillsOf(log)) : p \in solid

\* the offsets d within the cube of half-side r with d.d <= r^2, and with
\* (r - 1)^2 <= d.d when hollow
BallOffsets(r, hollow) ==
    {d \in (0 - r..r) \X (0 - r..r) \X (0 - r..r) :
        LET dd == d[1] * d[1] + d[2] * d[2] + d[3] * d[3]
        IN dd <= r * r /\ (hollow => dd >= (r - 1) * (r - 1))}

\* C28: for a sphere of radius r >= 1 the full-cube sampler of coordinates.ts
\* and the sqrt-bounded sampler inlined in shapesExt.ts return the same set of
\* coordinates, with hollow = false and with hollow = true: the center plus
\* every offset d with d.d <= r^2, restricted to (r - 1)^2 <= d.d when hollow;
\* the sample a sphere command took is that set.
C28_SphereSamplersAgree ==
    (op.shape.kind \in {"sphere", "sphereExt"} /\ op.shape.p[1] >= 1) =>
        \A hollow \in sampled.done :
            LET center == op.shape.center
                r == op.shape.p[1]
                fullCube == Range(getSpherePositions(center, r, hollow, 1))
                sqrtBounded == Range(shapesExt_getSpherePositions(center, r, hollow))
                taken == Range(IF hollow THEN sampled.shell ELSE sampled.solid)
            IN /\ fullCube = sqrtBounded
               /\ OffsetsFrom(center, fullCube) = BallOffsets(r, hollow)
               /\ taken = sqrtBounded

\* C28 witness: the sqrt-bounded sampler was run both ways on a sphere of
\* radius 3; the shell holds the offset (2, 0, 0) and not the offset (1, 0, 0),
\* the solid holds both.
C28_Witness ==
    /\ op.shape.kind = "sphereExt" /\ op.shape.p = <<3>>
    /\ op.shape.center = <<0, 0, 0>>
    /\ sampled.done = {TRUE, FALSE}
    /\ <<2, 0, 0>> \in Range(sampled.shell)
    /\ <<1, 0, 0>> \notin Range(sampled.shell)
    /\ {<<1, 0, 0>>, <<2, 0, 0>>} \subseteq Range(sampled.solid)

\* the <<x, z>> cross-section a set of coordinates has at height y
CrossSection(S, y) == {<<q[1], q[3]>> : q \in {q \in S : q[2] = y}}

\* C29: the coordinates getHyperboloidPositions returns for a height H are
\* mirror-symmetric about the half-height layer: for every layer offset y in
\* [0, H) the cross-section at y equals the cross-section at the mirrored
\* offset, the mirror being taken about the layer floor(H / 2) the code
\* measures t from or, failing that, about the middle (H - 1) / 2 of the
\* emitted layers.
C29_HyperboloidMirror ==
    op.shape.kind = "hyperboloid" =>
        \A hollow \in sampled.done :
            LET S == Range(IF hollow THEN sampled.shell ELSE sampled.solid)
                centerY == op.shape.center[2]
                heightInt == op.shape.p[3]
                halfHeight == heightInt \div 2
                mirrored(top) ==
                    \A y \in 0..(heightInt - 1) :
                        CrossSection(S, centerY + y) = CrossSection(S, centerY + top - y)
            IN mirrored(2 * halfHeight) \/ mirrored(heightInt - 1)

\* C30: in the Bresenham branch of getLinePositions (p0 and p1 agree on fewer
\* than two axes) any two consecutive returned coordinates differ by exactly 1,
\* towards p1, along every axis with the largest absolute delta and by at most
\* 1 along each other axis, and no coordinate is returned twice.
C30_LineConnected ==
    (LineSampled /\ EqualAxes(op.shape.center, op.shape.p) < 2) =>
        LET p0 == op.shape.center
            p1 == op.shape.p
            line == sampled.solid
            delta(a) == Max(p1[a] - p0[a], p0[a] - p1[a])
            dm == ChebyshevDistance(p0, p1)
            step(i, a) == line[i + 1][a] - line[i][a]
        IN /\ \A i \in 1..(Len(line) - 1) : \A a \in 1..3 :
                  IF delta(a) = dm
                  THEN step(i, a) = (IF p0[a] < p1[a] THEN 1 ELSE -1)
                  ELSE step(i, a) \in {-1, 0, 1}
           /\ Cardinality(Range(line)) = Len(line)

\* C30 witness: the line from (0, 0, 0) to (3, 1, -2) was sampled; x drives,
\* y and z each stay on some steps and move on others.
C30_Witness ==
    /\ LineSampled
    /\ op.shape.center = <<0, 0, 0>> /\ op.shape.p = <<3, 1, -2>>
    /\ sampled.solid = <<<<0, 0, 0>>, <<1, 0, -1>>, <<2, 1, -1>>, <<3, 1, -2>>>>

====
